---------------------------- MODULE Spec2Model ----------------------------
(***************************************************************************)
(* A model of the flurry pixelflut server: the canvas store (grid.rs), the *)
(* protocol codecs (protocols/text_protocol.rs, binary_protocol.rs) and    *)
(* the per-connection session engine (flutclient.rs).                      *)
(*                                                                         *)
(* Bytes are the integers 0..255 and byte streams are sequences of bytes.  *)
(* TLC's integers are 32-bit signed, so a u32 cell is kept as the pair     *)
(* <<high 16 bits, low 16 bits>>; from_be_bytes/to_be_bytes are computed   *)
(* on that pair.                                                           *)
(***************************************************************************)
EXTENDS Integers, Sequences, FiniteSets, TLC

(***************************************************************************)
(* Bounds of the model and constants of the program.                       *)
(***************************************************************************)
\* Width and height of every canvas (Flut::init's size_x, size_y).
SizeX == 3
SizeY == 2
\* How many chunks of bytes the peers send at most, all connections together.
MaxChunks == 3
\* config.rs: the number of canvases.
GRID_LENGTH == 1
\* flutclient.rs: `for _ in 0..1000`, the batch after which the local count
\* is added to COUNTER.
BATCH_N == 1000
\* main.rs: the value every cell starts with (0x00ff00ff), as two halves.
FillHi == 255
FillLo == 255

Sessions == {"A", "B"}

None == [none |-> TRUE]
Some(v) == [none |-> FALSE, v |-> v]

(***************************************************************************)
(* Sequences of bytes.                                                     *)
(***************************************************************************)
Drop(seq, n) == SubSeq(seq, n + 1, Len(seq))
Take(seq, n) == SubSeq(seq, 1, n)

\* The first position of byte b in seq, 0 when there is none.
IndexOf(seq, b) ==
    IF \E i \in 1..Len(seq) : seq[i] = b
    THEN CHOOSE i \in 1..Len(seq) : seq[i] = b /\ \A j \in 1..(i - 1) : seq[j] # b
    ELSE 0

\* str::starts_with
StartsWith(seq, pre) == Len(seq) >= Len(pre) /\ Take(seq, Len(pre)) = pre

\* char::is_whitespace on ASCII: \t \n \v \f \r and space.
IsSpace(b) == b \in {9, 10, 11, 12, 13, 32}

\* str::trim
RECURSIVE TrimStart(_)
TrimStart(seq) ==
    IF seq # <<>> /\ IsSpace(seq[1]) THEN TrimStart(Tail(seq)) ELSE seq
RECURSIVE TrimEnd(_)
TrimEnd(seq) ==
    IF seq # <<>> /\ IsSpace(seq[Len(seq)]) THEN TrimEnd(Take(seq, Len(seq) - 1)) ELSE seq
Trim(seq) == TrimEnd(TrimStart(seq))

\* str::split(' '): the fields between single spaces (empty fields included).
RECURSIVE Split(_)
Split(seq) ==
    LET i == IndexOf(seq, 32)
    IN  IF i = 0 THEN <<seq>> ELSE <<Take(seq, i - 1)>> \o Split(Drop(seq, i))

IsDigit(b) == b \in 48..57

\* <u16 as FromStr>::from_str / <u8 as FromStr>::from_str: an optional '+',
\* then one or more decimal digits, the value at most max; -1 for Err.
RECURSIVE ParseDigits(_, _, _)
ParseDigits(seq, acc, max) ==
    IF seq = <<>> THEN acc
    ELSE IF ~IsDigit(seq[1]) THEN -1
    ELSE LET n == acc * 10 + (seq[1] - 48)
         IN  IF n > max THEN -1 ELSE ParseDigits(Tail(seq), n, max)
ParseUnsigned(seq, max) ==
    LET digits == IF seq # <<>> /\ seq[1] = 43 THEN Tail(seq) ELSE seq
    IN  IF digits = <<>> THEN -1 ELSE ParseDigits(digits, 0, max)

\* format!("{}") of an unsigned integer.
RECURSIVE Dec(_)
Dec(n) == IF n < 10 THEN <<48 + n>> ELSE Dec(n \div 10) \o <<48 + (n % 10)>>

\* format!("{:02X}") of a byte.
HexDigit(d) == IF d < 10 THEN 48 + d ELSE 65 + (d - 10)
\* Hex2, mutated: format!("{:X}"), no leading zero.
Hex2NoPad(b) ==
    IF b < 16 THEN <<HexDigit(b)>> ELSE <<HexDigit(b \div 16), HexDigit(b % 16)>>
Hex2(b) == <<HexDigit(b \div 16), HexDigit(b % 16)>>

(***************************************************************************)
(* color.rs and the u32 cell.                                              *)
(***************************************************************************)
W8(w) == [tag |-> "W8", b |-> <<w>>]
RGB24(r, g, b) == [tag |-> "RGB24", b |-> <<r, g, b>>]
RGBA32(r, g, b, a) == [tag |-> "RGBA32", b |-> <<r, g, b, a>>]

\* u32::from_be_bytes and u32::to_be_bytes.
FromBeBytes(b) == <<b[1] * 256 + b[2], b[3] * 256 + b[4]>>
ToBeBytes(v) == <<v[1] \div 256, v[1] % 256, v[2] \div 256, v[2] % 256>>

\* Color::to_bytes
ColorToBytes(color) ==
    CASE color.tag = "RGB24" -> <<color.b[1], color.b[2], color.b[3], 255>>
      [] color.tag = "RGBA32" -> <<color.b[1], color.b[2], color.b[3], color.b[4]>>
      [] color.tag = "W8" -> <<color.b[1], color.b[1], color.b[1], 255>>

(***************************************************************************)
(* grid.rs: Flut<u32>.  A grid is [size_x, size_y, cells]; cells is the    *)
(* packed vector, cells[idx + 1] being the Rust cells[idx].                *)
(***************************************************************************)
FlutInit(size_x, size_y, value) ==
    [size_x |-> size_x, size_y |-> size_y,
     cells |-> [i \in 1..(size_x * size_y) |-> value]]

\* Flut::index, mutated: the bound is checked on the packed index only.
FlutIndexWrapping(grid, x, y) ==
    IF (y * grid.size_x) + x >= grid.size_x * grid.size_y
    THEN None
    ELSE Some((y * grid.size_x) + x)

\* Flut::index, mutated: the row stride is the height.
FlutIndexStrideY(grid, x, y) ==
    IF x >= grid.size_x \/ y >= grid.size_y
    THEN None
    ELSE Some((y * grid.size_y) + x)

FlutIndex(grid, x, y) ==
    IF x >= grid.size_x \/ y >= grid.size_y
    THEN None
    ELSE Some((y * grid.size_x) + x)

FlutGetSize(grid) == <<grid.size_x, grid.size_y>>

\* Grid::get
FlutGet(grid, x, y) ==
    LET i == FlutIndex(grid, x, y)
    IN  IF i.none THEN None ELSE Some(grid.cells[i.v + 1])

\* Grid::set, mutated: the store spills into the following cell.
FlutSetSpill(grid, x, y, value) ==
    LET i == FlutIndex(grid, x, y)
    IN  IF i.none THEN grid
        ELSE [grid EXCEPT !.cells = [j \in DOMAIN @ |->
                 IF j \in {i.v + 1, i.v + 2} THEN value ELSE @[j]]]

\* Grid::set, as one whole-cell store.
FlutSet(grid, x, y, value) ==
    LET i == FlutIndex(grid, x, y)
    IN  IF i.none THEN grid ELSE [grid EXCEPT !.cells[i.v + 1] = value]

(***************************************************************************)
(* lib.rs: Command and Response, and the results of a parse.               *)
(***************************************************************************)
CmdHelp == [op |-> "Help"]
CmdProtocols == [op |-> "Protocols"]
CmdSize(canvas) == [op |-> "Size", canvas |-> canvas]
CmdGetPixel(canvas, x, y) == [op |-> "GetPixel", canvas |-> canvas, x |-> x, y |-> y]
CmdSetPixel(canvas, x, y, color) ==
    [op |-> "SetPixel", canvas |-> canvas, x |-> x, y |-> y, color |-> color]
CmdChangeCanvas(canvas) == [op |-> "ChangeCanvas", canvas |-> canvas]
CmdChangeProtocol(protocol) == [op |-> "ChangeProtocol", protocol |-> protocol]
\* The command slot of a session that has dispatched nothing yet.
CmdNone == [op |-> "None"]

RespHelp == [op |-> "Help"]
RespSize(x, y) == [op |-> "Size", x |-> x, y |-> y]
RespGetPixel(x, y, c) == [op |-> "GetPixel", x |-> x, y |-> y, c |-> c]

\* io::Result<Command> of a parse that consumed `used` bytes of the stream;
\* Wait is a parse still suspended in a read.
Ok(cmd, used) == [k |-> "ok", cmd |-> cmd, used |-> used]
Err(kind, used) == [k |-> "err", err |-> kind, used |-> used]
Wait == [k |-> "wait"]

(***************************************************************************)
(* protocols/text_protocol.rs: TextParser.  A parser is                    *)
(* [type |-> "text", canvas |-> c] or [type |-> "binary"].                 *)
(***************************************************************************)
sHELP == <<72, 69, 76, 80>>
sPROTOCOLS == <<80, 82, 79, 84, 79, 67, 79, 76, 83>>
sSIZE == <<83, 73, 90, 69>>
sPX == <<80, 88, 32>>
sCANVAS == <<67, 65, 78, 86, 65, 83, 32>>
sPROTOCOL == <<80, 82, 79, 84, 79, 67, 79, 76, 32>>
sBinary == <<98, 105, 110, 97, 114, 121>>
sText == <<116, 101, 120, 116>>
\* config.rs HELP_TEXT, cut to its first word: only its identity matters.
HELP_TEXT == <<70, 108, 117, 114, 114, 121, 10>>

TextParserDefault == [type |-> "text", canvas |-> 0]
BinaryParserDefault == [type |-> "binary"]

\* Whether the bytes are UTF-8 (read_line fails with InvalidData otherwise).
IsCont(b) == b \in 128..191
RECURSIVE IsUtf8(_)
IsUtf8(seq) ==
    IF seq = <<>> THEN TRUE
    ELSE LET b == seq[1]
             n == Len(seq)
         IN  IF b < 128 THEN IsUtf8(Tail(seq))
             ELSE IF b \in 194..223
                  THEN n >= 2 /\ IsCont(seq[2]) /\ IsUtf8(Drop(seq, 2))
             ELSE IF b \in 224..239
                  THEN /\ n >= 3
                       /\ IsCont(seq[2])
                       /\ IsCont(seq[3])
                       /\ (b = 224 => seq[2] >= 160)
                       /\ (b = 237 => seq[2] <= 159)
                       /\ IsUtf8(Drop(seq, 3))
             ELSE IF b \in 240..244
                  THEN /\ n >= 4
                       /\ IsCont(seq[2])
                       /\ IsCont(seq[3])
                       /\ IsCont(seq[4])
                       /\ (b = 240 => seq[2] >= 144)
                       /\ (b = 244 => seq[2] <= 143)
                       /\ IsUtf8(Drop(seq, 4))
             ELSE FALSE

\* val, mutated: the digits a to f are refused.
HexValUpperOnly(c) ==
    IF c \in 65..70 THEN c - 65 + 10
    ELSE IF c \in 48..57 THEN c - 48
    ELSE -1

\* text_protocol.rs val: one hex digit, -1 for Err.
HexVal(c) ==
    IF c \in 65..70 THEN c - 65 + 10
    ELSE IF c \in 97..102 THEN c - 97 + 10
    ELSE IF c \in 48..57 THEN c - 48
    ELSE -1
val(c1, c2) ==
    IF HexVal(c1) < 0 \/ HexVal(c2) < 0 THEN -1 ELSE HexVal(c1) * 16 + HexVal(c2)

\* parse_color: None for Err(InvalidInput).
parse_color(color) ==
    LET v(i) == val(color[i], color[i + 1])
    IN  IF Len(color) = 2 /\ v(1) >= 0 THEN Some(W8(v(1)))
        ELSE IF Len(color) = 6 /\ v(1) >= 0 /\ v(3) >= 0 /\ v(5) >= 0
             THEN Some(RGB24(v(1), v(3), v(5)))
        ELSE IF Len(color) = 8 /\ v(1) >= 0 /\ v(3) >= 0 /\ v(5) >= 0 /\ v(7) >= 0
             THEN Some(RGBA32(v(1), v(3), v(5), v(7)))
        ELSE None

\* parse_pixel, mutated: a colour that does not parse is dropped and the
\* line read as a GetPixel.
parse_pixel_drops_bad_color(parser, line) ==
    LET split == Split(Trim(line))
    IN  IF Len(split) < 3 THEN None
        ELSE LET horizontal == ParseUnsigned(split[2], 65535)
                 vertical == ParseUnsigned(split[3], 65535)
             IN  IF horizontal < 0 \/ vertical < 0 THEN None
                 ELSE IF Len(split) = 3 \/ parse_color(split[4]).none
                      THEN Some(CmdGetPixel(parser.canvas, horizontal, vertical))
                 ELSE Some(CmdSetPixel(parser.canvas, horizontal, vertical,
                                       parse_color(split[4]).v))

\* TextParser::parse_pixel; None for Err(InvalidInput).
parse_pixel(parser, line) ==
    LET split == Split(Trim(line))
    IN  IF Len(split) < 3 THEN None
        ELSE LET horizontal == ParseUnsigned(split[2], 65535)
                 vertical == ParseUnsigned(split[3], 65535)
             IN  IF horizontal < 0 \/ vertical < 0 THEN None
                 ELSE IF Len(split) = 3
                      THEN Some(CmdGetPixel(parser.canvas, horizontal, vertical))
                 ELSE LET color == parse_color(split[4])
                      IN  IF color.none THEN None
                          ELSE Some(CmdSetPixel(parser.canvas, horizontal, vertical, color.v))

\* TextParser::parse_canvas
parse_canvas(line) ==
    LET split == Split(Trim(line))
    IN  IF Len(split) < 2 THEN None
        ELSE LET canvas == ParseUnsigned(split[2], 255)
             IN  IF canvas < 0 THEN None ELSE Some(CmdChangeCanvas(canvas))

\* TextParser::parse_protocol
parse_protocol(line) ==
    LET split == Split(Trim(line))
    IN  IF Len(split) < 2 THEN None
        ELSE IF split[2] = sBinary THEN Some(CmdChangeProtocol("binary"))
        ELSE IF split[2] = sText THEN Some(CmdChangeProtocol("text"))
        ELSE None

\* TextParser::parse, mutated: SIZE names the canvas a parser starts on
\* and not the one this parser has selected.
TextParseLineDefaultCanvas(parser, line) ==
    IF ~IsUtf8(line) THEN None
    ELSE IF StartsWith(line, sHELP) THEN Some(CmdHelp)
    ELSE IF StartsWith(line, sPROTOCOLS) THEN Some(CmdProtocols)
    ELSE IF StartsWith(line, sSIZE) THEN Some(CmdSize(0))
    ELSE IF StartsWith(line, sPX) THEN parse_pixel(parser, line)
    ELSE IF StartsWith(line, sCANVAS) THEN parse_canvas(line)
    ELSE IF StartsWith(line, sPROTOCOL) THEN parse_protocol(line)
    ELSE None

\* The command of one line as read_line returned it (its newline included,
\* empty at the end of the stream); None for Err(InvalidInput).
TextParseLine(parser, line) ==
    IF ~IsUtf8(line) THEN None
    ELSE IF StartsWith(line, sHELP) THEN Some(CmdHelp)
    ELSE IF StartsWith(line, sPROTOCOLS) THEN Some(CmdProtocols)
    ELSE IF StartsWith(line, sSIZE) THEN Some(CmdSize(parser.canvas))
    ELSE IF StartsWith(line, sPX) THEN parse_pixel(parser, line)
    ELSE IF StartsWith(line, sCANVAS) THEN parse_canvas(line)
    ELSE IF StartsWith(line, sPROTOCOL) THEN parse_protocol(line)
    ELSE None

\* <TextParser as Parser>::parse on the bytes the reader can deliver: input
\* is what was sent and not yet consumed, closed whether the stream has
\* ended.  read_line returns at the first newline or at the end of the stream.
TextParserParse(parser, input, closed) ==
    LET i == IndexOf(input, 10)
        line == IF i > 0 THEN Take(input, i) ELSE input
        cmd == TextParseLine(parser, line)
    IN  IF i = 0 /\ ~closed THEN Wait
        ELSE IF cmd.none THEN Err("InvalidInput", Len(line))
        ELSE Ok(cmd.v, Len(line))

(***************************************************************************)
(* binary_protocol.rs: BinaryParser.                                       *)
(***************************************************************************)
SIZE_BIN == 115
HELP_BIN == 104
GET_PX_BIN == 32
SET_PX_RGB_BIN == 128
SET_PX_RGBA_BIN == 129
SET_PX_W_BIN == 130

\* read_u16_le, mutated: the first byte is the high one.
U16LeAsBe(seq, i) == 256 * seq[i] + seq[i + 1]

\* read_u16_le of the bytes at positions i, i + 1.
U16Le(seq, i) == seq[i] + 256 * seq[i + 1]

\* How many bytes the frame of an opcode takes, the opcode included; 0 for
\* an opcode that is no command.
BinaryFrameLen(command) ==
    CASE command = HELP_BIN -> 1
      [] command = SIZE_BIN -> 2
      [] command = GET_PX_BIN -> 6
      [] command = SET_PX_W_BIN -> 7
      [] command = SET_PX_RGB_BIN -> 9
      [] command = SET_PX_RGBA_BIN -> 10
      [] OTHER -> 0

\* The command of one complete frame, mutated: the help opcode switches
\* the connection to the text protocol.
BinaryParseFrameHelpSwitches(f) ==
    CASE f[1] = HELP_BIN -> CmdChangeProtocol("text")
      [] f[1] = SIZE_BIN -> CmdSize(f[2])
      [] f[1] = GET_PX_BIN -> CmdGetPixel(f[2], U16Le(f, 3), U16Le(f, 5))
      [] f[1] = SET_PX_W_BIN ->
            CmdSetPixel(f[2], U16Le(f, 3), U16Le(f, 5), W8(f[7]))
      [] f[1] = SET_PX_RGB_BIN ->
            CmdSetPixel(f[2], U16Le(f, 3), U16Le(f, 5), RGB24(f[7], f[8], f[9]))
      [] f[1] = SET_PX_RGBA_BIN ->
            CmdSetPixel(f[2], U16Le(f, 3), U16Le(f, 5), RGBA32(f[7], f[8], f[9], f[10]))

\* The command of one complete frame.
BinaryParseFrame(f) ==
    CASE f[1] = HELP_BIN -> CmdHelp
      [] f[1] = SIZE_BIN -> CmdSize(f[2])
      [] f[1] = GET_PX_BIN -> CmdGetPixel(f[2], U16Le(f, 3), U16Le(f, 5))
      [] f[1] = SET_PX_W_BIN ->
            CmdSetPixel(f[2], U16Le(f, 3), U16Le(f, 5), W8(f[7]))
      [] f[1] = SET_PX_RGB_BIN ->
            CmdSetPixel(f[2], U16Le(f, 3), U16Le(f, 5), RGB24(f[7], f[8], f[9]))
      [] f[1] = SET_PX_RGBA_BIN ->
            CmdSetPixel(f[2], U16Le(f, 3), U16Le(f, 5), RGBA32(f[7], f[8], f[9], f[10]))

\* <BinaryParser as Parser>::parse, mutated: a stream that ends inside a
\* frame is answered with a Help, and so is a byte that is no opcode.
BinaryParserParseLenient(input, closed) ==
    IF input = <<>>
    THEN IF closed THEN Err("UnexpectedEof", 0) ELSE Wait
    ELSE LET need == BinaryFrameLen(input[1])
         IN  IF need = 0 THEN Ok(CmdHelp, 1)
             ELSE IF Len(input) >= need THEN Ok(BinaryParseFrame(Take(input, need)), need)
             ELSE IF closed THEN Ok(CmdHelp, Len(input))
             ELSE Wait

\* <BinaryParser as Parser>::parse: every read_u8/read_u16_le suspends until
\* its bytes are there and fails with UnexpectedEof when the stream ends
\* before them.
BinaryParserParse(input, closed) ==
    IF input = <<>>
    THEN IF closed THEN Err("UnexpectedEof", 0) ELSE Wait
    ELSE LET need == BinaryFrameLen(input[1])
         IN  IF need = 0 THEN Err("InvalidInput", 1)
             ELSE IF Len(input) >= need THEN Ok(BinaryParseFrame(Take(input, need)), need)
             ELSE IF closed THEN Err("UnexpectedEof", Len(input))
             ELSE Wait

\* match_parser!(parser: ... => parser.parse(&mut self.reader))
ParserParse(parser, input, closed) ==
    IF parser.type = "text"
    THEN TextParserParse(parser, input, closed)
    ELSE BinaryParserParse(input, closed)

(***************************************************************************)
(* The responders: <TextParser as Responder>::unparse and                  *)
(* <BinaryParser as Responder>::unparse, as the bytes they write.          *)
(***************************************************************************)
\* binary_protocol.rs: the help text of the binary protocol, cut to its
\* first line ("\nYou").
BinaryHelpText == <<10, 89, 111, 117>>

U16LeBytes(n) == <<n % 256, n \div 256>>

TextParserUnparse(response) ==
    CASE response.op = "Help" -> HELP_TEXT
      [] response.op = "Size" ->
            sSIZE \o <<32>> \o Dec(response.x) \o <<32>> \o Dec(response.y) \o <<10>>
      [] response.op = "GetPixel" ->
            sPX \o Dec(response.x) \o <<32>> \o Dec(response.y) \o <<32>>
                \o Hex2(response.c[1]) \o Hex2(response.c[2]) \o Hex2(response.c[3])
                \o <<10>>

BinaryParserUnparse(response) ==
    CASE response.op = "Help" -> BinaryHelpText
      [] response.op = "Size" -> U16LeBytes(response.x) \o U16LeBytes(response.y)
      [] response.op = "GetPixel" -> <<response.c[1], response.c[2], response.c[3]>>

\* match_parser!(parser: self.parser => parser.unparse(response, writer))
ParserUnparse(parser, response) ==
    IF parser.type = "text" THEN TextParserUnparse(response) ELSE BinaryParserUnparse(response)


(***************************************************************************)
(* lib.rs: the canvases and the global counter.                            *)
(***************************************************************************)
\* lib.rs get_pixel: grids.get(canvas) then grid.get(x, y).
get_pixel(grids, canvas, x, y) ==
    IF canvas + 1 \in DOMAIN grids THEN FlutGet(grids[canvas + 1], x, y) ELSE None

\* lib.rs set_pixel_rgba, as one whole-cell store.
set_pixel_rgba(grids, canvas, x, y, rgb) ==
    IF canvas + 1 \in DOMAIN grids
    THEN [grids EXCEPT ![canvas + 1] = FlutSet(grids[canvas + 1], x, y, rgb)]
    ELSE grids

\* The cell set_pixel_rgba stores to: None when the canvas does not exist or
\* Flut::index says the coordinates are out of bounds.
StoreTarget(grids, canvas, x, y) ==
    IF canvas + 1 \in DOMAIN grids THEN FlutIndex(grids[canvas + 1], x, y) ELSE None

\* lib.rs increment_counter: COUNTER.fetch_add(amount).
increment_counter(counter, amount) == counter + amount

(***************************************************************************)
(* flutclient.rs: FlutClient.  A client is the record                      *)
(*   pc      where the task is: "parse" (in or before parser.parse),       *)
(*           "store" (inside the store of grid.set), "ok"/"err" (returned  *)
(*           Ok(()) / Err(err)), "panic" (the task aborted);               *)
(*   reader  the bytes sent by the peer and not yet consumed by a parse;   *)
(*   closed  whether the peer has closed the connection;                   *)
(*   wbuf    the bytes held by the BufWriter;                              *)
(*   wire    the bytes handed to the socket;                               *)
(*   parser  self.parser; counter  self.counter;                           *)
(*   iter    how many passes of `for _ in 0..1000` are done;               *)
(*   st      the store in progress when pc = "store".                      *)
(***************************************************************************)
NoStore == [canvas |-> 0, x |-> 0, y |-> 0, idx |-> 0, value |-> <<0, 0>>, raced |-> FALSE]

\* FlutClient::new
FlutClientNew ==
    [pc |-> "parse", reader |-> <<>>, closed |-> FALSE, wbuf |-> <<>>, wire |-> <<>>,
     parser |-> TextParserDefault, counter |-> 0, iter |-> 0, err |-> "", st |-> NoStore]

\* `return Err(..)` / `?` out of process_socket, and a panic of the task.
\* `return Err(e)`, mutated: the error is noted and the loop goes on.
ReturnErrContinue(c, kind) == [c EXCEPT !.err = kind]

ReturnErr(c, kind) == [c EXCEPT !.pc = "err", !.err = kind]
ReturnOk(c) == [c EXCEPT !.pc = "ok"]
Panic(c) == [c EXCEPT !.pc = "panic"]

\* writer.write_all(bytes) into the BufWriter, mutated: the bytes go in front.
WriterWritePrepend(c, bytes) == [c EXCEPT !.wbuf = bytes \o @]

\* writer.write_all(bytes) into the BufWriter (the responses of a bounded
\* run stay far below its capacity, so nothing is written through).
WriterWrite(c, bytes) == [c EXCEPT !.wbuf = @ \o bytes]

\* writer.flush().await?: fail says that the socket refuses the write.
WriterFlush(c, fail) ==
    IF fail THEN ReturnErr(c, "BrokenPipe")
    ELSE [c EXCEPT !.wire = @ \o c.wbuf, !.wbuf = <<>>]

\* FlutClient::help_command
help_command(c, fail) ==
    WriterFlush(WriterWrite(c, ParserUnparse(c.parser, RespHelp)), fail)

\* The handler of Command::Protocols: write the list of protocols, flush.
sEnabledText == <<69, 110, 97, 98, 108, 101, 100, 58, 32, 116, 101, 120, 116, 10>>
sEnabledBinary ==
    <<69, 110, 97, 98, 108, 101, 100, 58, 32, 98, 105, 110, 97, 114, 121, 10>>
protocols_command(c, fail) ==
    WriterFlush(WriterWrite(c, sEnabledText \o sEnabledBinary), fail)

\* FlutClient::size_command: self.grids[canvas] panics on a canvas that does
\* not exist.
size_command(c, grids, canvas, fail) ==
    IF canvas + 1 \notin DOMAIN grids THEN Panic(c)
    ELSE LET size == FlutGetSize(grids[canvas + 1])
         IN  WriterFlush(
                 WriterWrite(c, ParserUnparse(c.parser, RespSize(size[1], size[2]))),
                 fail)

\* FlutClient::get_pixel_command, mutated: a GetPixel that reads no cell is
\* answered with black and the session goes on.
get_pixel_command_black(c, got, x, y) ==
    LET color == IF got.none THEN <<0, 0, 0, 0>> ELSE ToBeBytes(got.v)
    IN  WriterWrite(c,
            ParserUnparse(c.parser, RespGetPixel(x, y, <<color[1], color[2], color[3]>>)))

\* FlutClient::get_pixel_command, mutated: the response carries the last
\* three bytes of the cell (G, B, A) in place of the first three.
get_pixel_command_gba(c, got, x, y) ==
    IF got.none THEN ReturnErr(c, "InvalidInput")
    ELSE LET color == ToBeBytes(got.v)
         IN  WriterWrite(c,
                 ParserUnparse(c.parser, RespGetPixel(x, y, <<color[2], color[3], color[4]>>)))

\* FlutClient::get_pixel_command; got is what get_pixel(&self.grids, canvas,
\* x, y) returned.
get_pixel_command(c, got, x, y) ==
    IF got.none THEN ReturnErr(c, "InvalidInput")
    ELSE LET color == ToBeBytes(got.v)
         IN  WriterWrite(c,
                 ParserUnparse(c.parser, RespGetPixel(x, y, <<color[1], color[2], color[3]>>)))

\* The u32 of FlutClient::set_pixel_command, mutated: the alpha of an RGBA32
\* colour is dropped and the cell made opaque.
SetPixelValueOpaque(color) ==
    FromBeBytes(<<ColorToBytes(color)[1], ColorToBytes(color)[2], ColorToBytes(color)[3], 255>>)

\* The u32 FlutClient::set_pixel_command stores for a colour.
SetPixelValue(color) ==
    CASE color.tag = "RGB24" -> FromBeBytes(<<color.b[1], color.b[2], color.b[3], 255>>)
      [] color.tag = "RGBA32" ->
            FromBeBytes(<<color.b[1], color.b[2], color.b[3], color.b[4]>>)
      [] color.tag = "W8" -> FromBeBytes(<<color.b[1], color.b[1], color.b[1], 255>>)

\* FlutClient::set_pixel_command after the store, mutated: the writer is
\* flushed as well.
set_pixel_counted_flush(c) ==
    [c EXCEPT !.counter = @ + 1, !.wire = @ \o c.wbuf, !.wbuf = <<>>]

\* FlutClient::set_pixel_command after the store: self.counter += 1.
set_pixel_counted(c) == [c EXCEPT !.counter = @ + 1]

\* FlutClient::set_pixel_command up to the store of grid.set: with a cell
\* to store to the task enters the store, otherwise nothing is stored and
\* the command is done.
set_pixel_command(c, grids, cmd) ==
    LET target == StoreTarget(grids, cmd.canvas, cmd.x, cmd.y)
    IN  IF target.none THEN set_pixel_counted(c)
        ELSE [c EXCEPT !.pc = "store",
                       !.st = [canvas |-> cmd.canvas, x |-> cmd.x, y |-> cmd.y,
                               idx |-> target.v,
                               value |-> SetPixelValue(cmd.color),
                               raced |-> FALSE]]

\* FlutClient::change_canvas_command, mutated: the text parser accepts the
\* canvas number GRID_LENGTH as well.
change_canvas_command_off_by_one(c, canvas) ==
    IF c.parser.type = "text"
    THEN IF canvas <= GRID_LENGTH
         THEN [c EXCEPT !.parser.canvas = canvas]
         ELSE ReturnErr(c, "InvalidInput")
    ELSE ReturnErr(c, "Unsupported")

\* <TextParser as IOProtocol>::change_canvas and <BinaryParser as
\* IOProtocol>::change_canvas, through FlutClient::change_canvas_command.
change_canvas_command(c, canvas) ==
    IF c.parser.type = "text"
    THEN IF canvas < GRID_LENGTH
         THEN [c EXCEPT !.parser.canvas = canvas]
         ELSE ReturnErr(c, "InvalidInput")
    ELSE ReturnErr(c, "Unsupported")

\* FlutClient::change_protocol, mutated: the new parser starts on a reader
\* of its own and the bytes already buffered are lost.
change_protocol_fresh_reader(c, protocol) ==
    IF protocol = "text"
    THEN [c EXCEPT !.parser = TextParserDefault, !.reader = <<>>]
    ELSE [c EXCEPT !.parser = BinaryParserDefault, !.reader = <<>>]

\* FlutClient::change_protocol
change_protocol(c, protocol) ==
    IF protocol = "text"
    THEN [c EXCEPT !.parser = TextParserDefault]
    ELSE [c EXCEPT !.parser = BinaryParserDefault]

\* The end of one pass, mutated: the local count is added at the end of a
\* batch and kept.
EndOfPassKeepsCount(c) ==
    IF c.iter + 1 = BATCH_N
    THEN [c |-> [c EXCEPT !.iter = 0], add |-> c.counter]
    ELSE [c |-> [c EXCEPT !.iter = @ + 1], add |-> 0]

\* The end of one pass of `for _ in 0..1000`: after the last pass of a batch
\* increment_counter(self.counter); self.counter = 0.  add is what goes to
\* COUNTER.
EndOfPass(c) ==
    IF c.iter + 1 = BATCH_N
    THEN [c |-> [c EXCEPT !.iter = 0, !.counter = 0], add |-> c.counter]
    ELSE [c |-> [c EXCEPT !.iter = @ + 1], add |-> 0]

\* `break 'outer`: the batch starts again with the parser as it is now.
BreakOuter(c) == [c |-> [c EXCEPT !.iter = 0], add |-> 0]

\* What a handler left behind: a handler that returned an error (`?`), that
\* panicked or that is inside its store ends the pass here.
AfterHandler(h, breaks) ==
    IF h.pc # "parse" THEN [c |-> h, add |-> 0]
    ELSE IF breaks THEN BreakOuter(h)
    ELSE EndOfPass(h)

\* One pass of the loop of FlutClient::process_socket on the result r of
\* parser.parse: got is what a GetPixel reads, fail whether a flush fails.
ProcessParsed(c0, grids, r, got, fail) ==
    LET c == [c0 EXCEPT !.reader = Drop(@, r.used)]
        cmd == r.cmd
    IN  IF r.k = "err"
        THEN IF r.err = "UnexpectedEof"
             THEN [c |-> ReturnOk(c), add |-> c.counter]
             ELSE [c |-> ReturnErr(c, r.err), add |-> 0]
        ELSE CASE cmd.op = "Help" -> AfterHandler(help_command(c, fail), FALSE)
               [] cmd.op = "Protocols" -> AfterHandler(protocols_command(c, fail), FALSE)
               [] cmd.op = "Size" ->
                     AfterHandler(size_command(c, grids, cmd.canvas, fail), FALSE)
               [] cmd.op = "GetPixel" ->
                     AfterHandler(get_pixel_command(c, got, cmd.x, cmd.y), FALSE)
               [] cmd.op = "SetPixel" ->
                     AfterHandler(set_pixel_command(c, grids, cmd), FALSE)
               [] cmd.op = "ChangeCanvas" ->
                     AfterHandler(change_canvas_command(c, cmd.canvas), TRUE)
               [] cmd.op = "ChangeProtocol" ->
                     AfterHandler(change_protocol(c, cmd.protocol), TRUE)


(***************************************************************************)
(* The state.                                                              *)
(*   grids    the canvases (Arc<[Flut<u32>]>), grids[c + 1] is canvas c;   *)
(*   COUNTER  lib.rs COUNTER;                                              *)
(*   client   the FlutClient of every connection;                          *)
(*   budget   how many chunks the peers may still send.                    *)
(* History kept for the properties only:                                   *)
(*   g        per connection: cmd, the command dispatched last; n, how     *)
(*            many parse results were dispatched; nset, how many SetPixel  *)
(*            commands were completed; inb, how many of them stored to a   *)
(*            cell; added, the total it added to COUNTER; eof, whether it  *)
(*            ended on a parse at the clean end of the stream; rd, what    *)
(*            its last GetPixel read; prev, the command before cmd; recv,  *)
(*            the bytes that arrived in the step that dispatched cmd;      *)
(*   lastSet  per canvas and in-bounds (x, y): the value and the           *)
(*            connection of the last store to (x, y) that no other store   *)
(*            to (x, y) overlapped or followed, None when there is none;   *)
(*   written  per canvas and cell: the values set calls were given for it. *)
(* For the checks of single functions:                                     *)
(*   probe    the call of a function on its own: its input and, once it    *)
(*            has run, its result.                                         *)
(* For the tasks beside the sessions:                                      *)
(*   web      the snapshot cache of canvas 0 (Flut.last_hash, Flut.jpgbuf), *)
(*            the encoder's position in update_jpg_buffer, and the HTTP    *)
(*            streams.                                                     *)
(***************************************************************************)
VARIABLES grids, COUNTER, CLIENTS, client, budget, g, lastSet, written, probe, web

vars == <<grids, COUNTER, CLIENTS, client, budget, g, lastSet, written, probe, web>>

Fill == <<FillHi, FillLo>>

Coords == (0..(SizeX - 1)) \X (0..(SizeY - 1))

\* A connection the acceptor has not accepted yet.
NotAccepted == [FlutClientNew EXCEPT !.pc = "idle"]

\* The session's task around process_socket: CLIENTS is incremented when the
\* session is established and decremented when process_socket returns, with
\* Ok or with an error.  A panic inside process_socket unwinds the task and
\* the decrement after the call is not run.
clients_established(n) == n + 1

clients_terminated(pc, n) == IF pc \in {"ok", "err"} THEN n - 1 ELSE n

GhostNew ==
    [cmd |-> CmdNone, prev |-> CmdNone, n |-> 0, nset |-> 0, inb |-> 0, added |-> 0,
     eof |-> FALSE, rd |-> None, recv |-> <<>>]

\* No function is called on its own.
NoProbe == [fn |-> "none"]

\* The server before any connection, with the given budget of chunks.
Server(chunks) ==
    /\ grids = [c \in 1..GRID_LENGTH |-> FlutInit(SizeX, SizeY, Fill)]
    /\ COUNTER = 0
    /\ CLIENTS = 0
    /\ client = [s \in Sessions |-> NotAccepted]
    /\ budget = chunks
    /\ g = [s \in Sessions |-> GhostNew]
    /\ lastSet = [c \in 1..GRID_LENGTH |-> [xy \in Coords |-> None]]
    /\ written = [c \in 1..GRID_LENGTH |-> [i \in 1..(SizeX * SizeY) |-> {}]]

\* No encoder and no HTTP stream runs.
NoWeb == [task |-> "none"]

InitWith(chunks) == Server(chunks) /\ probe = NoProbe /\ web = NoWeb

Init == InitWith(MaxChunks)

(***************************************************************************)
(* Stores and loads of one cell that overlap.  grid.rs stores and loads    *)
(* through SyncUnsafeCell with no synchronisation, so two tasks on two     *)
(* worker threads that access one cell at once, one of them storing, race: *)
(* the outcome is any mixture of the halves of the old and the new value.  *)
(***************************************************************************)
Tear(a, b) == {a, b, <<a[1], b[2]>>, <<b[1], a[2]>>}

\* The connections other than s that are inside a store to the given cell.
Storing(s, canvas, idx) ==
    {t \in Sessions \ {s} :
        /\ client[t].pc = "store"
        /\ client[t].st.canvas = canvas
        /\ client[t].st.idx = idx}

\* What get_pixel can return to connection s for the parse result r.
GotChoices(s, r) ==
    IF r.k = "ok" /\ r.cmd.op = "GetPixel"
    THEN LET target == StoreTarget(grids, r.cmd.canvas, r.cmd.x, r.cmd.y)
             whole == get_pixel(grids, r.cmd.canvas, r.cmd.x, r.cmd.y)
         IN  IF target.none \/ Storing(s, r.cmd.canvas, target.v) = {}
             THEN {whole}
             ELSE {Some(v) : v \in UNION {Tear(whole.v, client[t].st.value) :
                                             t \in Storing(s, r.cmd.canvas, target.v)}}
    ELSE {None}

\* Whether the flush of a response can fail: only once the peer is gone.
FailChoices(c, r) ==
    IF r.k = "ok" /\ r.cmd.op \in {"Help", "Protocols", "Size"} /\ c.closed
    THEN {FALSE, TRUE}
    ELSE {FALSE}

(***************************************************************************)
(* The actions.                                                            *)
(***************************************************************************)
\* The FlutClient ct of another connection after a pass of the connection
\* with client c, mutated: the parser is one value shared by all sessions.
OtherClientSharedParser(ct, c) ==
    IF ct.pc = "idle" THEN ct ELSE [ct EXCEPT !.parser = c.parser]

\* The FlutClient ct of another connection after a pass of the connection
\* with client c: every FlutClient owns its reader, writer, parser and
\* counter, so nothing of ct changes.
OtherClient(ct, c) == ct

\* The acceptor accepts connection s and spawns its session: FlutClient::new,
\* then CLIENTS is incremented and process_socket starts.
Establish(s) ==
    /\ client[s].pc = "idle"
    /\ client' = [client EXCEPT ![s] = FlutClientNew]
    /\ CLIENTS' = clients_established(CLIENTS)
    /\ UNCHANGED <<grids, COUNTER, budget, g, lastSet, written, probe, web>>

\* Connection s, its client being c0 after the bytes of chunk arrived, gets
\* the result of parser.parse and runs one pass of the loop of
\* process_socket on it.
Exec(s, c0, chunk) ==
    LET r == ParserParse(c0.parser, c0.reader, c0.closed)
    IN  /\ r.k # "wait"
        /\ \E got \in GotChoices(s, r), fail \in FailChoices(c0, r) :
            LET res == ProcessParsed(c0, grids, r, got, fail)
                begins == res.c.pc = "store"
                st == res.c.st
                racing == IF begins THEN Storing(s, st.canvas, st.idx) ELSE {}
                isSet == r.k = "ok" /\ r.cmd.op = "SetPixel"
            IN  /\ client' = [t \in Sessions |->
                        IF t = s
                        THEN [res.c EXCEPT !.st.raced = (racing # {})]
                        ELSE IF t \in racing
                        THEN [OtherClient(client[t], res.c) EXCEPT !.st.raced = TRUE]
                        ELSE OtherClient(client[t], res.c)]
                /\ COUNTER' = increment_counter(COUNTER, res.add)
                /\ CLIENTS' = clients_terminated(res.c.pc, CLIENTS)
                /\ UNCHANGED <<grids, probe, web>>
                /\ g' = [g EXCEPT ![s] =
                        [cmd |-> IF r.k = "ok" THEN r.cmd ELSE CmdNone,
                         prev |-> g[s].cmd,
                         n |-> g[s].n + 1,
                         nset |-> g[s].nset + (IF isSet /\ ~begins THEN 1 ELSE 0),
                         inb |-> g[s].inb,
                         added |-> g[s].added + res.add,
                         eof |-> r.k = "err" /\ c0.reader = <<>> /\ c0.closed,
                         rd |-> got,
                         recv |-> chunk]]
                /\ lastSet' = IF begins /\ <<st.x, st.y>> \in Coords
                              THEN [lastSet EXCEPT ![st.canvas + 1][<<st.x, st.y>>] = None]
                              ELSE lastSet
                /\ written' = IF begins
                              THEN [written EXCEPT ![st.canvas + 1][st.idx + 1] =
                                        @ \cup {st.value}]
                              ELSE written

\* The peer of s sends one chunk of bytes while the task of s is suspended
\* in a read; the task wakes up and, when the bytes complete a command,
\* runs it.
Recv(s, menu) ==
    /\ budget > 0
    /\ client[s].pc = "parse"
    /\ ~client[s].closed
    /\ ParserParse(client[s].parser, client[s].reader, FALSE).k = "wait"
    /\ budget' = budget - 1
    /\ \E chunk \in menu :
        LET c0 == [client[s] EXCEPT !.reader = @ \o chunk]
        IN  IF ParserParse(c0.parser, c0.reader, FALSE).k = "wait"
            THEN /\ client' = [client EXCEPT ![s] = c0]
                 /\ UNCHANGED <<grids, COUNTER, CLIENTS, g, lastSet, written, probe, web>>
            ELSE Exec(s, c0, chunk)

\* The task of s goes on with bytes it already has, or finds the stream
\* ended.
Step(s) ==
    /\ client[s].pc = "parse"
    /\ Exec(s, client[s], <<>>)
    /\ UNCHANGED budget

\* The peer of s closes the connection.
Close(s) ==
    /\ client[s].pc \in {"parse", "store"}
    /\ ~client[s].closed
    /\ client' = [client EXCEPT ![s].closed = TRUE]
    /\ UNCHANGED <<grids, COUNTER, CLIENTS, budget, g, lastSet, written, probe, web>>

\* The store of grid.set completes, then self.counter += 1 and the pass
\* ends.  A store that another store to the same cell overlapped leaves a
\* mixture.
StoreEnd(s) ==
    /\ client[s].pc = "store"
    /\ LET st == client[s].st
           cell == grids[st.canvas + 1].cells[st.idx + 1]
           res == EndOfPass(set_pixel_counted(
                      [client[s] EXCEPT !.pc = "parse", !.st = NoStore]))
       IN  /\ IF st.raced
              THEN \E v \in Tear(cell, st.value) :
                      grids' = [grids EXCEPT ![st.canvas + 1].cells[st.idx + 1] = v]
              ELSE grids' = set_pixel_rgba(grids, st.canvas, st.x, st.y, st.value)
           /\ client' = [client EXCEPT ![s] = res.c]
           /\ COUNTER' = increment_counter(COUNTER, res.add)
           /\ g' = [g EXCEPT ![s].nset = @ + 1, ![s].inb = @ + 1,
                             ![s].added = @ + res.add]
           /\ lastSet' = IF <<st.x, st.y>> \in Coords
                         THEN [lastSet EXCEPT ![st.canvas + 1][<<st.x, st.y>>] =
                                  IF st.raced THEN None
                                  ELSE Some([v |-> st.value, by |-> s])]
                         ELSE lastSet
           /\ UNCHANGED <<CLIENTS, budget, written, probe, web>>


(***************************************************************************)
(* What the peers send.  The cell the connections share is (0, 1), the     *)
(* first cell of the second row; (SizeX, 0) is out of bounds and has the   *)
(* same packed index.                                                      *)
(***************************************************************************)
TxtGet(x, y) == sPX \o Dec(x) \o <<32>> \o Dec(y) \o <<10>>
TxtSet(x, y, hex) == sPX \o Dec(x) \o <<32>> \o Dec(y) \o <<32>> \o hex \o <<10>>
BinGet(canvas, x, y) == <<GET_PX_BIN, canvas>> \o U16LeBytes(x) \o U16LeBytes(y)
BinSetRGB(canvas, x, y, r, gr, b) ==
    <<SET_PX_RGB_BIN, canvas>> \o U16LeBytes(x) \o U16LeBytes(y) \o <<r, gr, b>>
BinSetRGBA(canvas, x, y, r, gr, b, a) ==
    <<SET_PX_RGBA_BIN, canvas>> \o U16LeBytes(x) \o U16LeBytes(y) \o <<r, gr, b, a>>

lHELP == sHELP \o <<10>>
lSIZE == sSIZE \o <<10>>
lCANVAS0 == sCANVAS \o <<48, 10>>
lCANVAS1 == sCANVAS \o <<49, 10>>
lPROTOCOLBinary == sPROTOCOL \o sBinary \o <<10>>
\* "80" and "FF": the greys 0x80 and 0xff.
hx80 == <<56, 48>>
hxFF == <<70, 70>>

\* "PX 0\n", a PX line with a field missing, and a byte that is no opcode.
lPXShort == sPX \o <<48, 10>>
bUnknown == <<0>>

\* Two of the chunks hold two commands: a GetPixel out of bounds with a
\* SetPixel behind it, and `PROTOCOL binary` with the binary Help behind it.
TextMenu ==
    {TxtGet(0, 1), TxtSet(0, 1, hx80), TxtGet(SizeX, 0) \o TxtSet(0, 1, hx80),
     TxtSet(SizeX, 0, hx80), TxtSet(SizeX - 1, 0, hxFF), lPXShort,
     lHELP, lSIZE, lCANVAS0, lCANVAS1, lPROTOCOLBinary, lPROTOCOLBinary \o <<HELP_BIN>>}

BinaryMenu ==
    {BinGet(0, 0, 1), BinSetRGB(0, 0, 1, 170, 187, 204), BinSetRGBA(0, 0, 1, 0, 0, 0, 0),
     BinSetRGB(0, SizeX, 0, 170, 187, 204), BinSetRGB(1, 0, 1, 170, 187, 204),
     <<HELP_BIN>>, <<SIZE_BIN, 0>>, <<SIZE_BIN, 1>>, bUnknown}

\* A peer speaks the protocol its connection is in.
Menu(s) == IF client[s].parser.type = "text" THEN TextMenu ELSE BinaryMenu

Next ==
    \E s \in Sessions :
        \/ Establish(s)
        \/ Recv(s, Menu(s))
        \/ Step(s)
        \/ Close(s)
        \/ StoreEnd(s)

Spec == Init /\ [][Next]_vars


(***************************************************************************)
(* One connection that sends more than a batch of commands: SetPixel       *)
(* lines and, once BATCH_N - 1 pixels are counted locally, possibly a      *)
(* `CANVAS 0`.                                                             *)
(***************************************************************************)
BatchMenu ==
    IF client["A"].counter = BATCH_N - 1
    THEN {TxtSet(0, 1, hx80), lCANVAS0}
    ELSE {TxtSet(0, 1, hx80)}

InitBatch == InitWith(BATCH_N + 1)

NextBatch ==
    \/ Establish("A")
    \/ Recv("A", BatchMenu)
    \/ StoreEnd("A")

SpecBatch == InitBatch /\ [][NextBatch]_vars

(***************************************************************************)
(* Two connections and the global counter: A sends more than a batch of    *)
(* SetPixel lines, with one CANVAS or PROTOCOL line (`break 'outer`) after *)
(* its first SetPixel or before the end of the batch; B sends one SetPixel *)
(* line; either peer may close at any time.                                *)
(***************************************************************************)
MaxCountExtra == 3

lPROTOCOLText == sPROTOCOL \o sText \o <<10>>

CountMenu(s) ==
    IF s = "A"
    THEN IF client["A"].counter \in {1, BATCH_N - 1} /\ g["A"].n = g["A"].nset
         THEN {TxtSet(0, 1, hx80), lCANVAS0, lPROTOCOLText}
         ELSE {TxtSet(0, 1, hx80)}
    ELSE IF g[s].n = 0 THEN {TxtSet(SizeX, 0, hxFF)} ELSE {}

InitCount == InitWith(BATCH_N + MaxCountExtra)

NextCount ==
    \E s \in Sessions :
        \/ Establish(s)
        \/ Recv(s, CountMenu(s))
        \/ Step(s)
        \/ Close(s)
        \/ StoreEnd(s)

SpecCount == InitCount /\ [][NextCount]_vars

(***************************************************************************)
(* TextParser::parse on its own: a parser made by TextParser::new on some  *)
(* canvas parses one line, once.                                           *)
(***************************************************************************)
\* TextParser::new
TextParserNew(canvas) == [type |-> "text", canvas |-> canvas]

\* The two hex digits of a byte, in upper case, lower case, or the first
\* upper and the second lower.
HexDigitIn(d, upper) == IF d < 10 THEN 48 + d ELSE (IF upper THEN 65 ELSE 97) + (d - 10)
HexByteIn(b, hc) ==
    <<HexDigitIn(b \div 16, hc \in {"upper", "mixed"}), HexDigitIn(b % 16, hc = "upper")>>
RECURSIVE HexIn(_, _)
HexIn(bytes, hc) ==
    IF bytes = <<>> THEN <<>> ELSE HexByteIn(bytes[1], hc) \o HexIn(Tail(bytes), hc)

HexCases == {"upper", "lower", "mixed"}
ProbeCanvases == {0, 3}
ProbeCoords == {0, 7, 65535}
ProbeColors == {W8(0), W8(171), RGB24(171, 205, 239), RGB24(1, 35, 69), RGBA32(171, 205, 239, 18)}
ProbeCanvasNumbers == {0, 1, 12, 255}

\* The lines of the forms the parser recognises, each with the command it
\* stands for when the parser is on canvas c.
RecognisedLines(c) ==
    {<<lHELP, CmdHelp>>, <<sPROTOCOLS \o <<10>>, CmdProtocols>>, <<lSIZE, CmdSize(c)>>}
    \cup {<<TxtGet(x, y), CmdGetPixel(c, x, y)>> : x \in ProbeCoords, y \in ProbeCoords}
    \cup {<<TxtSet(7, y, HexIn(col.b, hc)), CmdSetPixel(c, 7, y, col)>> :
              y \in {0, 65535}, col \in ProbeColors, hc \in HexCases}
    \cup {<<sCANVAS \o Dec(n) \o <<10>>, CmdChangeCanvas(n)>> : n \in ProbeCanvasNumbers}
    \cup {<<sPROTOCOL \o sText \o <<10>>, CmdChangeProtocol("text")>>,
          <<lPROTOCOLBinary, CmdChangeProtocol("binary")>>}

\* Lines of no recognised form: an unknown word, missing fields, a field
\* that is no number or too large, a colour of a wrong length or with a
\* digit that is not hex, an unknown protocol name.
\*   "FOO\n", "help\n", "\n", " PX 1 2\n", "PX\n"
\*   "PX 1\n", "PX 65536 0\n", "PX 0 65536\n", "PX -1 0\n", "PX a 0\n"
\*   "PX 1 2x\n", "PX  1 2\n", "PX 0 0 ABC\n", "PX 0 0 ABCD\n", "PX 0 0 GG\n"
\*   "PX 0 0 AABBCCDDEE\n", "PX 0 0  AA\n", "CANVAS\n", "CANVAS 256\n", "CANVAS x\n"
\*   "CANVAS -1\n", "PROTOCOL\n", "PROTOCOL foo\n", "PROTOCOL Binary\n", "PROTOCOL binaryx\n"
BadLines ==
    {<<70, 79, 79, 10>>,
     <<104, 101, 108, 112, 10>>,
     <<10>>,
     <<32, 80, 88, 32, 49, 32, 50, 10>>,
     <<80, 88, 10>>,
     <<80, 88, 32, 49, 10>>,
     <<80, 88, 32, 54, 53, 53, 51, 54, 32, 48, 10>>,
     <<80, 88, 32, 48, 32, 54, 53, 53, 51, 54, 10>>,
     <<80, 88, 32, 45, 49, 32, 48, 10>>,
     <<80, 88, 32, 97, 32, 48, 10>>,
     <<80, 88, 32, 49, 32, 50, 120, 10>>,
     <<80, 88, 32, 32, 49, 32, 50, 10>>,
     <<80, 88, 32, 48, 32, 48, 32, 65, 66, 67, 10>>,
     <<80, 88, 32, 48, 32, 48, 32, 65, 66, 67, 68, 10>>,
     <<80, 88, 32, 48, 32, 48, 32, 71, 71, 10>>,
     <<80, 88, 32, 48, 32, 48, 32, 65, 65, 66, 66, 67, 67, 68, 68, 69, 69, 10>>,
     <<80, 88, 32, 48, 32, 48, 32, 32, 65, 65, 10>>,
     <<67, 65, 78, 86, 65, 83, 10>>,
     <<67, 65, 78, 86, 65, 83, 32, 50, 53, 54, 10>>,
     <<67, 65, 78, 86, 65, 83, 32, 120, 10>>,
     <<67, 65, 78, 86, 65, 83, 32, 45, 49, 10>>,
     <<80, 82, 79, 84, 79, 67, 79, 76, 10>>,
     <<80, 82, 79, 84, 79, 67, 79, 76, 32, 102, 111, 111, 10>>,
     <<80, 82, 79, 84, 79, 67, 79, 76, 32, 66, 105, 110, 97, 114, 121, 10>>,
     <<80, 82, 79, 84, 79, 67, 79, 76, 32, 98, 105, 110, 97, 114, 121, 120, 10>>}

\* Lines that go on after a recognised form, each with the command of the
\* form it starts with.
\*   "HELPX\n" -> CmdHelp
\*   "HELP me\n" -> CmdHelp
\*   "SIZE 1\n" -> CmdSize(c)
\*   "SIZEX\n" -> CmdSize(c)
\*   "PROTOCOLSX\n" -> CmdProtocols
\*   "PROTOCOLS x\n" -> CmdProtocols
\*   "PX 1 2 AABBCC extra\n" -> CmdSetPixel(c, 1, 2, RGB24(170, 187, 204))
\*   "PX 1 2 FF 0\n" -> CmdSetPixel(c, 1, 2, W8(255))
ExtraLines(c) ==
    {<<<<72, 69, 76, 80, 88, 10>>,
       CmdHelp>>,
     <<<<72, 69, 76, 80, 32, 109, 101, 10>>,
       CmdHelp>>,
     <<<<83, 73, 90, 69, 32, 49, 10>>,
       CmdSize(c)>>,
     <<<<83, 73, 90, 69, 88, 10>>,
       CmdSize(c)>>,
     <<<<80, 82, 79, 84, 79, 67, 79, 76, 83, 88, 10>>,
       CmdProtocols>>,
     <<<<80, 82, 79, 84, 79, 67, 79, 76, 83, 32, 120, 10>>,
       CmdProtocols>>,
     <<<<80, 88, 32, 49, 32, 50, 32, 65, 65, 66, 66, 67, 67, 32, 101, 120, 116, 114, 97, 10>>,
       CmdSetPixel(c, 1, 2, RGB24(170, 187, 204))>>,
     <<<<80, 88, 32, 49, 32, 50, 32, 70, 70, 32, 48, 10>>,
       CmdSetPixel(c, 1, 2, W8(255))>>}

ProbeLines ==
    {p[1] : p \in RecognisedLines(0)} \cup BadLines \cup {p[1] : p \in ExtraLines(0)}

InitText ==
    /\ Server(0)
    /\ web = NoWeb
    /\ probe \in {[fn |-> "parse", canvas |-> c, line |-> l, done |-> FALSE, out |-> Wait] :
                      c \in ProbeCanvases, l \in ProbeLines}

\* parser.parse(&mut reader) on a reader that holds the line.
ParseText ==
    /\ probe.fn = "parse"
    /\ ~probe.done
    /\ probe' = [probe EXCEPT !.done = TRUE,
                              !.out = TextParserParse(TextParserNew(probe.canvas),
                                                      probe.line, FALSE)]
    /\ UNCHANGED <<grids, COUNTER, CLIENTS, client, budget, g, lastSet, written, web>>

NextText == ParseText

SpecText == InitText /\ [][NextText]_vars

(***************************************************************************)
(* BinaryParser::parse on its own: one parser reads a stream of bytes,     *)
(* parse after parse, until a parse fails or the bytes are used up.  The   *)
(* probe keeps the stream as it was given, the bytes not yet consumed, and *)
(* the results of the parses in order.                                     *)
(***************************************************************************)
\* The frame of a command: opcode, canvas, x and y as u16 little-endian,
\* the bytes of the colour.
BinaryFrame(cmd) ==
    CASE cmd.op = "Help" -> <<HELP_BIN>>
      [] cmd.op = "Size" -> <<SIZE_BIN, cmd.canvas>>
      [] cmd.op = "GetPixel" -> BinGet(cmd.canvas, cmd.x, cmd.y)
      [] cmd.op = "SetPixel" ->
            <<(CASE cmd.color.tag = "W8" -> SET_PX_W_BIN
                 [] cmd.color.tag = "RGB24" -> SET_PX_RGB_BIN
                 [] cmd.color.tag = "RGBA32" -> SET_PX_RGBA_BIN), cmd.canvas>>
                \o U16LeBytes(cmd.x) \o U16LeBytes(cmd.y) \o cmd.color.b

RECURSIVE BinaryFrames(_)
BinaryFrames(cmds) ==
    IF cmds = <<>> THEN <<>> ELSE BinaryFrame(Head(cmds)) \o BinaryFrames(Tail(cmds))

BinaryCanvases == {0, 255}
BinaryPoints == {<<0, 0>>, <<258, 1>>, <<65535, 513>>}
BinaryColors == {W8(130), RGB24(130, 0, 255), RGBA32(130, 0, 255, 160)}

\* The commands the binary protocol has a frame for.
BinaryCommands ==
    {CmdHelp}
    \cup {CmdSize(c) : c \in BinaryCanvases}
    \cup {CmdGetPixel(c, p[1], p[2]) : c \in BinaryCanvases, p \in BinaryPoints}
    \cup {CmdSetPixel(c, p[1], p[2], col) :
              c \in BinaryCanvases, p \in BinaryPoints, col \in BinaryColors}

IsBinaryOpcode(b) ==
    b \in {HELP_BIN, SIZE_BIN, GET_PX_BIN, SET_PX_RGB_BIN, SET_PX_RGBA_BIN, SET_PX_W_BIN}

\* Streams that start with a byte that is no opcode, alone or with a whole
\* frame behind it.
UnknownOpcodeStreams ==
    {<<b>> \o rest : b \in {x \in 0..255 : ~IsBinaryOpcode(x)},
                     rest \in {<<>>, BinGet(0, 0, 0)}}

\* Streams that stop inside a frame: the opcode is there, its last byte is not.
TruncatedStreams ==
    UNION {{Take(BinaryFrame(cmd), n) : n \in 1..(Len(BinaryFrame(cmd)) - 1)} :
               cmd \in BinaryCommands}

InitBinary ==
    /\ Server(0)
    /\ web = NoWeb
    /\ probe \in
         {[fn |-> "binary", sent |-> cmds, stream |-> BinaryFrames(cmds),
           input |-> BinaryFrames(cmds), closed |-> cl, out |-> <<>>] :
              cmds \in {<<a>> : a \in BinaryCommands}
                         \cup {<<a, b>> : a \in BinaryCommands, b \in BinaryCommands},
              cl \in BOOLEAN}
         \cup {[fn |-> "binary", sent |-> <<>>, stream |-> i, input |-> i, closed |-> cl,
                out |-> <<>>] :
                  i \in UnknownOpcodeStreams \cup TruncatedStreams, cl \in BOOLEAN}

\* parser.parse(&mut bufreader), again on the same reader after a command.
ParseBinary ==
    /\ probe.fn = "binary"
    /\ IF probe.out = <<>> THEN TRUE
       ELSE probe.out[Len(probe.out)].k = "ok" /\ probe.input # <<>>
    /\ LET r == BinaryParserParse(probe.input, probe.closed)
       IN  probe' = [probe EXCEPT !.out = Append(@, r),
                                  !.input = IF r.k = "wait" THEN @ ELSE Drop(@, r.used)]
    /\ UNCHANGED <<grids, COUNTER, CLIENTS, client, budget, g, lastSet, written, web>>

NextBinary == ParseBinary

SpecBinary == InitBinary /\ [][NextBinary]_vars

(***************************************************************************)
(* TextParser::unparse followed by TextParser::parse: a parser writes the  *)
(* line of a response, and then parses that line.                          *)
(***************************************************************************)
EchoSizes == {0, 800, 65535}
EchoColors == {<<0, 0, 0>>, <<171, 205, 239>>, <<255, 0, 10>>, <<1, 35, 69>>}

\* The responses that take a line of their own: Size and GetPixel.
EchoResponses ==
    {RespSize(w, h) : w \in EchoSizes, h \in EchoSizes}
    \cup {RespGetPixel(x, y, c) : x \in ProbeCoords, y \in ProbeCoords, c \in EchoColors}

InitEcho ==
    /\ Server(0)
    /\ web = NoWeb
    /\ probe \in {[fn |-> "echo", canvas |-> c, resp |-> r, pc |-> "unparse",
                   line |-> <<>>, out |-> Wait] :
                      c \in ProbeCanvases, r \in EchoResponses}

\* parser.unparse(response, &mut writer)
UnparseText ==
    /\ probe.fn = "echo"
    /\ probe.pc = "unparse"
    /\ probe' = [probe EXCEPT !.pc = "parse", !.line = TextParserUnparse(probe.resp)]
    /\ UNCHANGED <<grids, COUNTER, CLIENTS, client, budget, g, lastSet, written, web>>

\* parser.parse(&mut reader) on a reader that holds what was written.
ParseEcho ==
    /\ probe.fn = "echo"
    /\ probe.pc = "parse"
    /\ probe' = [probe EXCEPT !.pc = "done",
                              !.out = TextParserParse(TextParserNew(probe.canvas),
                                                      probe.line, FALSE)]
    /\ UNCHANGED <<grids, COUNTER, CLIENTS, client, budget, g, lastSet, written, web>>

NextEcho == UnparseText \/ ParseEcho

SpecEcho == InitEcho /\ [][NextEcho]_vars

(***************************************************************************)
(* protocols/palette_protocol.rs: PaletteParser.  A palette parser is its  *)
(* table of 256 colours.                                                   *)
(***************************************************************************)
PROTOCOLS_BIN == 116
SET_PX_PALETTE_BIN == 33
SET_PALETTE_COLOR == 34

CmdChangeColor(index, color) == [op |-> "ChangeColor", index |-> index, color |-> color]

\* read_u16 of the bytes at positions i, i + 1.
U16Be(seq, i) == 256 * seq[i] + seq[i + 1]

\* PaletteParser::set_color
set_color(colors, index, color) == [colors EXCEPT ![index] = color]

\* self.colors.get_unchecked(color as usize), mutated: the index loses its
\* top bit.
PaletteColorAtSevenBits(colors, index) == colors[index % 128]

\* self.colors.get_unchecked(color as usize).clone(): the table has 256
\* entries and the index is a u8.
PaletteColorAt(colors, index) == colors[index]

PaletteFrameLen(command) ==
    CASE command = HELP_BIN -> 1
      [] command = PROTOCOLS_BIN -> 1
      [] command = SIZE_BIN -> 2
      [] command = GET_PX_BIN -> 6
      [] command = SET_PX_PALETTE_BIN -> 7
      [] command = SET_PALETTE_COLOR -> 5
      [] OTHER -> 0

PaletteParseFrame(colors, f) ==
    CASE f[1] = HELP_BIN -> CmdHelp
      [] f[1] = PROTOCOLS_BIN -> CmdProtocols
      [] f[1] = SIZE_BIN -> CmdSize(f[2])
      [] f[1] = GET_PX_BIN -> CmdGetPixel(f[2], U16Be(f, 3), U16Be(f, 5))
      [] f[1] = SET_PX_PALETTE_BIN ->
            CmdSetPixel(f[2], U16Be(f, 3), U16Be(f, 5), PaletteColorAt(colors, f[7]))
      [] f[1] = SET_PALETTE_COLOR -> CmdChangeColor(f[2], RGB24(f[3], f[4], f[5]))

\* <PaletteParser as Parser>::parse
PaletteParserParse(colors, input, closed) ==
    IF input = <<>>
    THEN IF closed THEN Err("UnexpectedEof", 0) ELSE Wait
    ELSE LET need == PaletteFrameLen(input[1])
         IN  IF need = 0 THEN Err("InvalidInput", 1)
             ELSE IF Len(input) >= need
                  THEN Ok(PaletteParseFrame(colors, Take(input, need)), need)
             ELSE IF closed THEN Err("UnexpectedEof", Len(input))
             ELSE Wait

(***************************************************************************)
(* PaletteParser::parse on its own: a parser with some table of colours,   *)
(* whose entries set_color may replace, parses one frame.                  *)
(***************************************************************************)
MaxSetColor == 1

\* PaletteParser::default draws the 256 colours at random; these are two
\* tables it can draw, with a different colour at every index.
PaletteSeeds == {0, 1}
PaletteOf(seed) ==
    [i \in 0..255 |->
        CASE (i + seed) % 3 = 0 -> W8((i * 7 + seed) % 256)
          [] (i + seed) % 3 = 1 -> RGB24(i, 255 - i, seed)
          [] OTHER -> RGBA32(i, seed, 255 - i, (i * 3) % 256)]

U16BeBytes(n) == <<n \div 256, n % 256>>
PaletteSetFrame(canvas, x, y, index) ==
    <<SET_PX_PALETTE_BIN, canvas>> \o U16BeBytes(x) \o U16BeBytes(y) \o <<index>>
PaletteGetFrame(canvas, x, y) ==
    <<GET_PX_BIN, canvas>> \o U16BeBytes(x) \o U16BeBytes(y)

PalettePoints == {<<258, 1>>, <<65535, 513>>}
PaletteStreams ==
    {PaletteSetFrame(c, p[1], p[2], i) : c \in {1}, p \in PalettePoints, i \in 0..255}
    \cup {PaletteGetFrame(c, p[1], p[2]) : c \in BinaryCanvases, p \in PalettePoints}
    \cup {<<HELP_BIN>>, <<PROTOCOLS_BIN>>, <<SIZE_BIN, 3>>, <<SET_PALETTE_COLOR, 4, 250, 189, 47>>,
          <<0>>, <<SET_PX_PALETTE_BIN, 1, 1>>}

SetColorIndices == {4, 130, 255}

InitPalette ==
    /\ Server(0)
    /\ web = NoWeb
    /\ probe \in {[fn |-> "palette", colors |-> PaletteOf(seed), stream |-> i,
                   sets |-> 0, out |-> Wait] :
                      seed \in PaletteSeeds, i \in PaletteStreams}

\* parser.set_color(index, color)
SetColor ==
    /\ probe.fn = "palette"
    /\ probe.sets < MaxSetColor
    /\ \E index \in SetColorIndices :
           probe' = [probe EXCEPT !.sets = @ + 1,
                                  !.colors = set_color(@, index, RGB24(250, 189, 47))]
    /\ UNCHANGED <<grids, COUNTER, CLIENTS, client, budget, g, lastSet, written, web>>

\* parser.parse(&mut bufreader) on a reader that holds the stream and has
\* ended.
ParsePalette ==
    /\ probe.fn = "palette"
    /\ probe.out = Wait
    /\ probe' = [probe EXCEPT !.out = PaletteParserParse(probe.colors, probe.stream, TRUE)]
    /\ UNCHANGED <<grids, COUNTER, CLIENTS, client, budget, g, lastSet, written, web>>

NextPalette == SetColor \/ ParsePalette

SpecPalette == InitPalette /\ [][NextPalette]_vars

(***************************************************************************)
(* grid.rs: the snapshot cache of a Flut<u32> (last_hash, jpgbuf) and      *)
(* update_jpg_buffer, run tick after tick by the encoder task while        *)
(* sessions store into the cells.  web holds, for canvas 0:                *)
(*   pc         where update_jpg_buffer is: "idle" between calls, "hash"   *)
(*              while check_changed reads the cells, "lock" once it has    *)
(*              stored a new hash, "encode" while the                      *)
(*              write lock of jpgbuf is held and the image is read;        *)
(*   window     per watched cell, the values it has held since the current *)
(*              read of the cells began;                                   *)
(*   last_hash, jpgbuf   the two fields of the Flut;                       *)
(*   writes, fails, ticked, quiet   history: the stores and failed encodes *)
(*              so far, whether a call has returned, whether no store has  *)
(*              happened since the last call began.                        *)
(***************************************************************************)
MaxCacheWrites == 2
MaxEncodeFail == 1

\* The cells the sessions store into while the encoder runs, and the colour
\* they store beside the fill colour (0x000000ff).
CachePoints == {<<0, 0>>, <<SizeX - 1, SizeY - 1>>}
CacheCells == {FlutIndex(FlutInit(SizeX, SizeY, Fill), p[1], p[2]).v + 1 : p \in CachePoints}
CacheInk == <<0, 255>>

\* DefaultHasher over the cells.  The hash is taken to tell any two of the
\* grids of the model apart; HashZero is the 0 that Flut::init stores, the
\* hash of none of them.
HashZero == [of |-> <<>>]
HashCells(cells) == [of |-> cells]

\* GenericImageView::get_pixel for every cell: red, green, blue.
ImageOf(cells) == [i \in 1..Len(cells) |-> Take(ToBeBytes(cells[i]), 3)]

RECURSIVE Flatten(_)
Flatten(seqs) == IF seqs = <<>> THEN <<>> ELSE Head(seqs) \o Flatten(Tail(seqs))

\* What JpegEncoder writes for an image: the JPEG magic bytes, then bytes
\* that stand for the picture.
JpegOf(image) == <<255, 216, 255>> \o Flatten(image)

\* The contents a read of the cells can return while stores race with it:
\* each watched cell with any value it has held since the read began.
RacyReads(cells, window) ==
    {[i \in 1..Len(cells) |-> IF i \in CacheCells THEN pick[i] ELSE cells[i]] :
        pick \in {f \in [CacheCells -> {Fill, CacheInk}] : \A i \in CacheCells : f[i] \in window[i]}}

WindowAt(cells) == [i \in CacheCells |-> {cells[i]}]

CacheNew ==
    [task |-> "cache", pc |-> "idle", window |-> WindowAt(FlutInit(SizeX, SizeY, Fill).cells),
     last_hash |-> HashZero, jpgbuf |-> <<>>,
     writes |-> 0, fails |-> 0, ticked |-> FALSE, quiet |-> FALSE]

InitCache == Server(0) /\ probe = NoProbe /\ web = CacheNew

\* A session's Flut::set on canvas 0.
CacheWrite ==
    /\ web.writes < MaxCacheWrites
    /\ \E p \in CachePoints, v \in {Fill, CacheInk} :
           LET i == FlutIndex(grids[1], p[1], p[2]).v + 1
           IN  /\ grids' = [grids EXCEPT ![1] = FlutSet(@, p[1], p[2], v)]
               /\ web' = [web EXCEPT !.writes = @ + 1, !.quiet = FALSE,
                                     !.window[i] = IF web.pc = "idle" THEN {v} ELSE @ \cup {v}]
    /\ UNCHANGED <<COUNTER, CLIENTS, client, budget, g, lastSet, written, probe>>

\* update_jpg_buffer is called: check_changed starts to hash the cells.
TickBegin ==
    /\ web.pc = "idle"
    /\ web' = [web EXCEPT !.pc = "hash", !.quiet = TRUE, !.window = WindowAt(grids[1].cells)]
    /\ UNCHANGED <<grids, COUNTER, CLIENTS, client, budget, g, lastSet, written, probe>>

\* check_changed returns: false when the hash is the stored one, and then
\* update_jpg_buffer returns; true after storing the new hash, and then
\* update_jpg_buffer goes on to take the write lock.
HashEnd ==
    /\ web.pc = "hash"
    /\ \E read \in RacyReads(grids[1].cells, web.window) :
           web' = IF HashCells(read) = web.last_hash
                  THEN [web EXCEPT !.pc = "idle", !.ticked = TRUE]
                  ELSE [web EXCEPT !.pc = "lock", !.last_hash = HashCells(read)]
    /\ UNCHANGED <<grids, COUNTER, CLIENTS, client, budget, g, lastSet, written, probe>>

\* self.jpgbuf.write() returns the guard and the buffer is cleared; to_image
\* starts to read the cells.
LockWrite ==
    /\ web.pc = "lock"
    /\ web' = [web EXCEPT !.pc = "encode", !.jpgbuf = <<>>,
                          !.window = WindowAt(grids[1].cells)]
    /\ UNCHANGED <<grids, COUNTER, CLIENTS, client, budget, g, lastSet, written, probe>>

\* The image is read and encoded into the buffer, or the encoder fails and
\* leaves what it had written; the lock is released.
EncodeEnd ==
    /\ web.pc = "encode"
    /\ \E read \in RacyReads(grids[1].cells, web.window) :
           \/ web' = [web EXCEPT !.pc = "idle", !.ticked = TRUE,
                                 !.jpgbuf = JpegOf(ImageOf(read))]
           \/ /\ web.fails < MaxEncodeFail
              /\ \E n \in {0, 2} :
                     web' = [web EXCEPT !.pc = "idle", !.ticked = TRUE, !.fails = @ + 1,
                                        !.jpgbuf = Take(JpegOf(ImageOf(read)), n)]
    /\ UNCHANGED <<grids, COUNTER, CLIENTS, client, budget, g, lastSet, written, probe>>

update_jpg_buffer == TickBegin \/ HashEnd \/ LockWrite \/ EncodeEnd

NextCache == CacheWrite \/ TickBegin \/ HashEnd \/ LockWrite \/ EncodeEnd

SpecCache == InitCache /\ [][NextCache]_vars

\* The encoder task calls update_jpg_buffer again and again, and a call
\* that has begun returns.
SpecCacheLive == SpecCache /\ WF_vars(update_jpg_buffer)

(***************************************************************************)
(* webapi.rs and stream.rs: the two HTTP streams, beside the encoder.      *)
(* web holds the cache and the encoder as above and, in addition,          *)
(*   img    the /imgstream response for canvas 0: "none" before the        *)
(*          request, "open" while the body is streamed, "closed" once the  *)
(*          client is gone; its boundary, the Content-Type it announced,   *)
(*          and the parts it has emitted;                                  *)
(*   stats  the /stats WebSocket task: "none" before the upgrade, "loop"   *)
(*          in its loop; whether the client is still there, and the ticks  *)
(*          taken, the messages sent and the sends that failed.            *)
(***************************************************************************)
MaxParts == 2
MaxStatsTicks == 3

\* Multipart::new(10, headers) draws the boundary at random from the bytes
\* 32..126 and 128..255; these are two boundaries it can draw.
Boundaries == {[i \in 1..10 |-> 97], [i \in 1..10 |-> IF i % 2 = 1 THEN 200 ELSE 45]}

sCRLF == <<13, 10>>
sMixedReplace == <<109, 117, 108, 116, 105, 112, 97, 114, 116, 47, 120, 45, 109, 105, 120, 101, 100, 45, 114, 101, 112, 108, 97, 99, 101, 59, 32, 98, 111, 117, 110, 100, 97, 114, 121, 61>>
sPartHeader == <<99, 111, 110, 116, 101, 110, 116, 45, 116, 121, 112, 101, 58, 32, 105, 109, 97, 103, 101, 47, 106, 112, 101, 103>>

\* Multipart::http_response_headers: the Content-Type of the response.
http_response_headers(boundary) == sMixedReplace \o boundary

\* write_multipart_frame
write_multipart_frame(obj, boundary, first) ==
    (IF first THEN <<45, 45>> ELSE sCRLF \o <<45, 45>>)
        \o boundary \o sCRLF \o sPartHeader \o sCRLF \o sCRLF \o obj

\* make_stats: the two counters as they are read.
make_stats == [c |-> CLIENTS, p |-> COUNTER]

HttpNew ==
    [task |-> "http", pc |-> "idle", window |-> WindowAt(FlutInit(SizeX, SizeY, Fill).cells),
     last_hash |-> HashZero, jpgbuf |-> <<>>,
     writes |-> 0, fails |-> 0, ticked |-> FALSE, quiet |-> FALSE,
     img |-> [pc |-> "none", boundary |-> <<>>, announced |-> <<>>, parts |-> <<>>],
     stats |-> [pc |-> "none", open |-> FALSE, ticks |-> 0, sent |-> 0, failed |-> 0,
                last |-> [c |-> 0, p |-> 0]]]

InitHttp == Server(0) /\ probe = NoProbe /\ web = HttpNew

\* image_stream: GET /imgstream?canvas=0.  Multipart::new sets first to
\* false and nothing changes it.
ImgConnect ==
    /\ web.img.pc = "none"
    /\ \E boundary \in Boundaries :
           web' = [web EXCEPT !.img = [pc |-> "open", boundary |-> boundary,
                                       announced |-> http_response_headers(boundary),
                                       parts |-> <<>>]]
    /\ UNCHANGED <<grids, COUNTER, CLIENTS, client, budget, g, lastSet, written, probe>>

\* One item of make_image_stream, framed by to_bytes_stream: a copy of the
\* buffer taken under the read lock, which waits while the encoder holds
\* the write lock.
ImgPart ==
    /\ web.img.pc = "open"
    /\ web.pc # "encode"
    /\ Len(web.img.parts) < MaxParts
    /\ web' = [web EXCEPT !.img.parts =
                   Append(@, write_multipart_frame(web.jpgbuf, web.img.boundary, FALSE))]
    /\ UNCHANGED <<grids, COUNTER, CLIENTS, client, budget, g, lastSet, written, probe>>

\* The client of /imgstream goes away: the server drops the body stream.
ImgDisconnect ==
    /\ web.img.pc = "open"
    /\ web' = [web EXCEPT !.img.pc = "closed"]
    /\ UNCHANGED <<grids, COUNTER, CLIENTS, client, budget, g, lastSet, written, probe>>

\* stats_stream: the upgrade to a WebSocket starts the task.
StatsConnect ==
    /\ web.stats.pc = "none"
    /\ web' = [web EXCEPT !.stats.pc = "loop", !.stats.open = TRUE]
    /\ UNCHANGED <<grids, COUNTER, CLIENTS, client, budget, g, lastSet, written, probe>>

\* The client of /stats goes away.
StatsDisconnect ==
    /\ web.stats.open
    /\ web' = [web EXCEPT !.stats.open = FALSE]
    /\ UNCHANGED <<grids, COUNTER, CLIENTS, client, budget, g, lastSet, written, probe>>

\* One turn of the loop of stats_stream: interval.tick(), then
\* c.send(make_stats()); an Err is logged and the loop goes on.
StatsTick ==
    /\ web.stats.pc = "loop"
    /\ web.stats.ticks < MaxStatsTicks
    /\ web' = [web EXCEPT !.stats.ticks = @ + 1,
                          !.stats.sent = IF web.stats.open THEN @ + 1 ELSE @,
                          !.stats.failed = IF web.stats.open THEN @ ELSE @ + 1,
                          !.stats.last = IF web.stats.open THEN make_stats ELSE @]
    /\ UNCHANGED <<grids, COUNTER, CLIENTS, client, budget, g, lastSet, written, probe>>

NextHttp ==
    \/ TickBegin \/ HashEnd \/ LockWrite \/ EncodeEnd
    \/ ImgConnect \/ ImgPart \/ ImgDisconnect
    \/ StatsConnect \/ StatsDisconnect \/ StatsTick

SpecHttp == InitHttp /\ [][NextHttp]_vars

(***************************************************************************)
(* main.rs: the accept loop of main.  web holds                            *)
(*   pc     "accept" while main waits in flut_listener.accept(), "exited"  *)
(*          once main has returned;                                        *)
(*   err    the kind of the accept error main returned with;               *)
(*   tasks  the tasks spawned, one per accepted connection, in order:      *)
(*          "running", ended with "ok" or "err", or "cancelled" because    *)
(*          the runtime was shut down under them.                          *)
(***************************************************************************)
MaxAccepts == 4

AcceptorNew == [task |-> "acceptor", pc |-> "accept", err |-> "none", tasks |-> <<>>]

InitAccept == Server(0) /\ probe = NoProbe /\ web = AcceptorNew

\* accept() returns a connection: the task is spawned and the loop goes
\* round without awaiting it.
AcceptOk ==
    /\ web.pc = "accept"
    /\ Len(web.tasks) < MaxAccepts
    /\ web' = [web EXCEPT !.tasks = Append(@, "running")]
    /\ UNCHANGED <<grids, COUNTER, CLIENTS, client, budget, g, lastSet, written, probe>>

\* accept() returns an error, of one socket (ECONNABORTED, EMFILE) or of
\* the listener: `?` returns it from main, and the runtime is shut down
\* with the tasks still running.
AcceptErr ==
    /\ web.pc = "accept"
    /\ \E kind \in {"per-socket", "fatal"} :
           web' = [web EXCEPT !.pc = "exited", !.err = kind,
                              !.tasks = [i \in DOMAIN @ |->
                                            IF @[i] = "running" THEN "cancelled" ELSE @[i]]]
    /\ UNCHANGED <<grids, COUNTER, CLIENTS, client, budget, g, lastSet, written, probe>>

\* A spawned task returns what process_socket returned.
TaskEnd ==
    /\ \E i \in DOMAIN web.tasks, result \in {"ok", "err"} :
           /\ web.tasks[i] = "running"
           /\ web' = [web EXCEPT !.tasks[i] = result]
    /\ UNCHANGED <<grids, COUNTER, CLIENTS, client, budget, g, lastSet, written, probe>>

NextAccept == AcceptOk \/ AcceptErr \/ TaskEnd

SpecAccept == InitAccept /\ [][NextAccept]_vars

(***************************************************************************)
(* protocols/text_protocol.rs: one TextParser used for several calls, as   *)
(* in the test parse_multiple: parse(&self, ..) on lines that arrive one   *)
(* by one, and change_canvas(&mut self, ..).  probe holds the parser, the  *)
(* canvas it was created on and the log of the calls: the call, its        *)
(* argument, its result and the canvas selected after it.                  *)
(***************************************************************************)
MaxCanvasCalls == 3

CanvasNumbers == {0, 3, 12}

CanvasLines ==
    {lSIZE, TxtGet(1, 2)} \cup {sCANVAS \o Dec(n) \o <<10>> : n \in CanvasNumbers}

InitCanvas ==
    /\ Server(0)
    /\ web = NoWeb
    /\ probe \in {[fn |-> "canvas", parser |-> TextParserNew(c), start |-> c, log |-> <<>>] :
                      c \in ProbeCanvases}

\* parser.parse(&mut reader) on a reader that holds the line: &self, the
\* parser is as it was.
ParseCanvas ==
    /\ probe.fn = "canvas"
    /\ Len(probe.log) < MaxCanvasCalls
    /\ \E line \in CanvasLines :
           probe' = [probe EXCEPT !.log = Append(@,
                        [call |-> "parse", arg |-> line,
                         out |-> TextParserParse(probe.parser, line, FALSE),
                         canvas |-> probe.parser.canvas])]
    /\ UNCHANGED <<grids, COUNTER, CLIENTS, client, budget, g, lastSet, written, web>>

\* change_canvas_command(canvas) of a client that holds the parser.
ChangeCanvas ==
    /\ probe.fn = "canvas"
    /\ Len(probe.log) < MaxCanvasCalls
    /\ \E n \in CanvasNumbers :
           LET c == change_canvas_command([FlutClientNew EXCEPT !.parser = probe.parser], n)
           IN  probe' = [probe EXCEPT !.parser = c.parser,
                            !.log = Append(@,
                                [call |-> "change_canvas", arg |-> n,
                                 out |-> IF c.pc = "err" THEN Err(c.err, 0) ELSE Ok(CmdNone, 0),
                                 canvas |-> c.parser.canvas])]
    /\ UNCHANGED <<grids, COUNTER, CLIENTS, client, budget, g, lastSet, written, web>>

NextCanvas == ParseCanvas \/ ChangeCanvas

SpecCanvas == InitCanvas /\ [][NextCanvas]_vars

(***************************************************************************)
(* flutclient.rs: process_socket of a connection whose codec is the        *)
(* palette codec.  The loops run on `&self.parser.clone()`, a copy taken   *)
(* when the outer loop is entered; it is taken again only after            *)
(* `break 'outer`, which follows ChangeCanvas and ChangeProtocol, and the  *)
(* palette parser returns neither.  The arm for ChangeColor calls          *)
(* set_color on self.parser.  probe holds self.parser (parser), the copy   *)
(* the loops parse with (cloned) and the commands handled so far (hist).   *)
(***************************************************************************)
MaxPaletteFrames == 3

PaletteClientIndices == {4, 130}
PaletteClientColors == {RGB24(250, 189, 47), RGB24(35, 69, 103)}

InitPaletteClient ==
    /\ Server(0)
    /\ web = NoWeb
    /\ probe \in {[fn |-> "palette_client", parser |-> PaletteOf(seed),
                   cloned |-> PaletteOf(seed), hist |-> <<>>] : seed \in PaletteSeeds}

\* One pass of the loop on a SET_PX_PALETTE_BIN frame: parse on the copy,
\* then set_pixel_command.
PaletteClientSetPixel ==
    /\ probe.fn = "palette_client"
    /\ Len(probe.hist) < MaxPaletteFrames
    /\ \E i \in PaletteClientIndices :
           LET r == PaletteParserParse(probe.cloned, PaletteSetFrame(0, 1, 1, i), FALSE)
           IN  /\ grids' = set_pixel_rgba(grids, r.cmd.canvas, r.cmd.x, r.cmd.y,
                                          SetPixelValue(r.cmd.color))
               /\ probe' = [probe EXCEPT !.hist = Append(@, [frame |-> "SetPixel", index |-> i])]
    /\ UNCHANGED <<COUNTER, CLIENTS, client, budget, g, lastSet, written, web>>

\* One pass of the loop on a SET_PALETTE_COLOR frame: parse on the copy,
\* then set_color on self.parser.
PaletteClientChangeColor ==
    /\ probe.fn = "palette_client"
    /\ Len(probe.hist) < MaxPaletteFrames
    /\ \E i \in PaletteClientIndices, c \in PaletteClientColors :
           LET r == PaletteParserParse(probe.cloned,
                        <<SET_PALETTE_COLOR, i, c.b[1], c.b[2], c.b[3]>>, FALSE)
           IN  probe' = [probe EXCEPT
                            !.parser = set_color(@, r.cmd.index, r.cmd.color),
                            !.hist = Append(@, [frame |-> "ChangeColor", index |-> r.cmd.index,
                                                color |-> r.cmd.color])]
    /\ UNCHANGED <<grids, COUNTER, CLIENTS, client, budget, g, lastSet, written, web>>

NextPaletteClient == PaletteClientSetPixel \/ PaletteClientChangeColor

SpecPaletteClient == InitPaletteClient /\ [][NextPaletteClient]_vars

(***************************************************************************)
(* protocols/stateful.rs: StateParser, the binary codec that carries its   *)
(* own selected canvas.  Its opcodes are those of binary_protocol.rs with  *)
(* SET_CANVAS_BIN and LOCK beside them; its coordinates are big-endian.  A *)
(* parser is [type |-> "state", canvas |-> n].                             *)
(***************************************************************************)
SET_CANVAS_BIN == 116
LOCK == 192

CmdMultiple(cmds) == [op |-> "Multiple", cmds |-> cmds]

\* The task unwinds: a panic!, or a debug_assert that fails.
Panicked == [k |-> "panic"]

\* #[derive(Default)]
StateParserDefault == [type |-> "state", canvas |-> 0]

\* parse_locked: command_length, 0 where it panics.
command_length(command) ==
    CASE command = SET_PX_RGB_BIN -> 7
      [] command = SET_PX_RGBA_BIN -> 8
      [] command = SET_PX_W_BIN -> 5
      [] OTHER -> 0

\* lockmask >> (7 - i) & 1
LockBit(lockmask, i) == (lockmask \div (2 ^ (7 - i))) % 2

\* lockmask.count_ones()
count_ones(lockmask) == Cardinality({i \in 0..7 : LockBit(lockmask, i) = 1})

\* j when static_spreaded reaches position i: the set bits before it.
StaticsBefore(lockmask, i) == Cardinality({k \in 0..(i - 1) : LockBit(lockmask, k) = 1})

\* pack_fun
pack_fun(parser, command, cmd) ==
    CmdSetPixel(parser.canvas, 256 * cmd[1] + cmd[2], 256 * cmd[3] + cmd[4],
        CASE command = SET_PX_RGB_BIN -> RGB24(cmd[5], cmd[6], cmd[7])
          [] command = SET_PX_RGBA_BIN -> RGBA32(cmd[5], cmd[6], cmd[7], cmd[8])
          [] command = SET_PX_W_BIN -> W8(cmd[5]))

\* StateParser::parse_locked on the bytes that follow the LOCK byte; debug
\* tells whether the build keeps debug assertions.  used counts the bytes
\* after the LOCK byte.
parse_locked(parser, input, closed, debug) ==
    LET short == IF closed THEN Err("UnexpectedEof", Len(input)) ELSE Wait
    IN  IF Len(input) < 3 THEN short
        ELSE LET amount == U16Be(input, 1)
                 command == input[3]
                 len == command_length(command)
             IN  IF len = 0 THEN Panicked
                 ELSE IF Len(input) < 4 THEN short
                 ELSE LET lockmask == input[4]
                          statics == count_ones(lockmask)
                          j == StaticsBefore(lockmask, len)
                          per == len - j
                          need == 4 + statics + (amount * per)
                          res(m) == [i \in 1..len |->
                                       IF LockBit(lockmask, i - 1) = 1
                                       THEN input[4 + StaticsBefore(lockmask, i - 1) + 1]
                                       ELSE input[4 + statics + (m * per)
                                                    + (i - 1 - StaticsBefore(lockmask, i - 1)) + 1]]
                      IN  IF Len(input) < 4 + statics THEN short
                          ELSE IF debug /\ statics # j THEN Panicked
                          ELSE IF Len(input) < need THEN short
                          ELSE Ok(CmdMultiple([m \in 1..amount |->
                                       pack_fun(parser, command, res(m - 1))]), need)

StateFrameLen(command) ==
    CASE command = HELP_BIN -> 1
      [] command = SET_CANVAS_BIN -> 2
      [] command = SIZE_BIN -> 1
      [] command = GET_PX_BIN -> 5
      [] command = SET_PX_W_BIN -> 6
      [] command = SET_PX_RGB_BIN -> 8
      [] command = SET_PX_RGBA_BIN -> 9
      [] OTHER -> 0

StateParseFrame(parser, f) ==
    CASE f[1] = HELP_BIN -> CmdHelp
      [] f[1] = SET_CANVAS_BIN -> CmdChangeCanvas(f[2])
      [] f[1] = SIZE_BIN -> CmdSize(parser.canvas)
      [] f[1] = GET_PX_BIN -> CmdGetPixel(parser.canvas, U16Be(f, 2), U16Be(f, 4))
      [] f[1] = SET_PX_W_BIN ->
            CmdSetPixel(parser.canvas, U16Be(f, 2), U16Be(f, 4), W8(f[6]))
      [] f[1] = SET_PX_RGB_BIN ->
            CmdSetPixel(parser.canvas, U16Be(f, 2), U16Be(f, 4), RGB24(f[6], f[7], f[8]))
      [] f[1] = SET_PX_RGBA_BIN ->
            CmdSetPixel(parser.canvas, U16Be(f, 2), U16Be(f, 4),
                        RGBA32(f[6], f[7], f[8], f[9]))

\* StateParser::parse_unlocked, which <StateParser as Parser>::parse calls.
StateParserParse(parser, input, closed, debug) ==
    IF input = <<>>
    THEN IF closed THEN Err("UnexpectedEof", 0) ELSE Wait
    ELSE IF input[1] = LOCK
         THEN LET r == parse_locked(parser, Drop(input, 1), closed, debug)
              IN  IF r.k \in {"ok", "err"} THEN [r EXCEPT !.used = @ + 1] ELSE r
    ELSE LET need == StateFrameLen(input[1])
         IN  IF need = 0 THEN Err("InvalidInput", 1)
             ELSE IF Len(input) >= need
                  THEN Ok(StateParseFrame(parser, Take(input, need)), need)
             ELSE IF closed THEN Err("UnexpectedEof", Len(input))
             ELSE Wait

\* <StateParser as IOProtocol>::change_canvas: the parser as it is left and
\* the result.
StateParserChangeCanvas(parser, canvas) ==
    [parser |-> parser, res |-> Err("Unsupported", 0)]

(***************************************************************************)
(* A session whose codec is a StateParser: process_socket parses frame     *)
(* after frame and handles ChangeCanvas with change_canvas_command, whose  *)
(* error ends the session.  probe holds the parser, where the session is   *)
(* ("run", "err") and the frames handled so far with their commands.       *)
(***************************************************************************)
MaxStateFrames == 3

StateCanvases == {0, 3}

StateFrames ==
    {<<SIZE_BIN>>, <<GET_PX_BIN, 0, 1, 0, 1>>, <<SET_PX_W_BIN, 0, 1, 0, 1, 130>>, <<HELP_BIN>>}
    \cup {<<SET_CANVAS_BIN, n>> : n \in StateCanvases}

InitState ==
    /\ Server(0)
    /\ web = NoWeb
    /\ probe = [fn |-> "state", parser |-> StateParserDefault, pc |-> "run", err |-> "",
                hist |-> <<>>]

\* One pass of the loop of process_socket on one frame.
StateFrame ==
    /\ probe.fn = "state"
    /\ probe.pc = "run"
    /\ Len(probe.hist) < MaxStateFrames
    /\ \E f \in StateFrames, debug \in BOOLEAN :
           LET r == StateParserParse(probe.parser, f, FALSE, debug)
               cc == StateParserChangeCanvas(probe.parser, r.cmd.canvas)
           IN  probe' =
                   IF r.cmd.op = "ChangeCanvas"
                   THEN [probe EXCEPT !.parser = cc.parser,
                                      !.pc = IF cc.res.k = "err" THEN "err" ELSE "run",
                                      !.err = IF cc.res.k = "err" THEN cc.res.err ELSE "",
                                      !.hist = Append(@, r.cmd)]
                   ELSE [probe EXCEPT !.hist = Append(@, r.cmd)]
    /\ UNCHANGED <<grids, COUNTER, CLIENTS, client, budget, g, lastSet, written, web>>

NextState == StateFrame

SpecState == InitState /\ [][NextState]_vars

(***************************************************************************)
(* StateParser::parse on a LOCK frame, as in the test test_lock_parse: a   *)
(* default parser and a reader that holds the frame and has ended.  probe  *)
(* holds the parts the frame was built from: the count, the opcode, the    *)
(* bits of the lock mask (most significant first), the static bytes (one   *)
(* per set bit) and the bytes that follow the header.                      *)
(***************************************************************************)
MaxLockAmount == 2

LockMasks ==
    {<<0, 0, 0, 0, 0, 0, 0, 0>>, <<1, 0, 1, 0, 0, 1, 1, 0>>, <<1, 1, 1, 1, 1, 0, 0, 0>>,
     <<0, 1, 0, 0, 0, 0, 0, 0>>, <<0, 0, 0, 0, 0, 0, 0, 1>>, <<1, 1, 1, 1, 1, 1, 1, 1>>}

\* The byte of a mask given by its bits.
LockMaskByte(bits) ==
    (128 * bits[1]) + (64 * bits[2]) + (32 * bits[3]) + (16 * bits[4])
        + (8 * bits[5]) + (4 * bits[6]) + (2 * bits[7]) + bits[8]

\* One static byte per set bit of the mask: 201, 202, ...
LockStatics(bits) ==
    [k \in 1..(bits[1] + bits[2] + bits[3] + bits[4] + bits[5] + bits[6] + bits[7] + bits[8])
        |-> 200 + k]

\* Bytes enough for MaxLockAmount commands of eight positions.
LockStream == [k \in 1..(8 * MaxLockAmount) |-> 16 + k]

InitLock ==
    /\ Server(0)
    /\ web = NoWeb
    /\ probe \in {[fn |-> "lock", amount |-> n, command |-> c, bits |-> b,
                   statics |-> LockStatics(b), tail |-> LockStream,
                   stream |-> <<LOCK, 0, n, c, LockMaskByte(b)>> \o LockStatics(b) \o LockStream,
                   debug |-> FALSE, out |-> Wait] :
                      n \in 0..MaxLockAmount,
                      c \in {SET_PX_RGB_BIN, SET_PX_RGBA_BIN, SET_PX_W_BIN},
                      b \in LockMasks}

\* parser.parse(&mut bufreader), in a build with or without debug
\* assertions.
ParseLock ==
    /\ probe.fn = "lock"
    /\ probe.out = Wait
    /\ \E debug \in BOOLEAN :
           probe' = [probe EXCEPT !.debug = debug,
                        !.out = StateParserParse(StateParserDefault, probe.stream, TRUE, debug)]
    /\ UNCHANGED <<grids, COUNTER, CLIENTS, client, budget, g, lastSet, written, web>>

NextLock == ParseLock

SpecLock == InitLock /\ [][NextLock]_vars

(***************************************************************************)
(* Helpers of the properties.                                              *)
(***************************************************************************)
RECURSIVE SumOver(_, _)
SumOver(f(_), S) ==
    IF S = {} THEN 0
    ELSE LET x == CHOOSE x \in S : TRUE IN f(x) + SumOver(f, S \ {x})

Live(s) == client[s].pc \in {"parse", "store"}
Ended(s) == client[s].pc \in {"ok", "err", "panic"}

\* Every byte the session has written so far, flushed or not.
Stream(c) == c.wire \o c.wbuf

\* Connection s dispatched a parse result in this step.
Dispatched(s) == g'[s].n = g[s].n + 1

\* The command names a cell of a canvas that exists.
InBounds(cmd) == cmd.canvas < GRID_LENGTH /\ <<cmd.x, cmd.y>> \in Coords

\* The response the session owes to the command it dispatched in this step,
\* in the protocol it was in.
Owed(s) ==
    LET cmd == g'[s].cmd
        parser == client'[s].parser
    IN  CASE cmd.op = "Help" -> ParserUnparse(parser, RespHelp)
          [] cmd.op = "Size" /\ cmd.canvas < GRID_LENGTH ->
                ParserUnparse(parser, RespSize(SizeX, SizeY))
          [] cmd.op = "GetPixel" /\ ~g'[s].rd.none ->
                LET b == ToBeBytes(g'[s].rd.v)
                IN  ParserUnparse(parser, RespGetPixel(cmd.x, cmd.y, <<b[1], b[2], b[3]>>))
          [] OTHER -> <<>>

(***************************************************************************)
(* C1: for every canvas and every in-bounds (x, y), after a set(x, y, c)   *)
(* that no other write to (x, y) overlapped or followed, get(x, y) is      *)
(* Some(c), whatever was written to other cells or out of bounds since.    *)
(***************************************************************************)
C1_SetThenGet ==
    \A c \in 1..GRID_LENGTH : \A xy \in Coords :
        ~lastSet[c][xy].none =>
            FlutGet(grids[c], xy[1], xy[2]) = Some(lastSet[c][xy].v.v)

\* A set (0, 1); B set the other cell (SizeX - 1, 0); A then read (0, 1) and
\* got what it had set.
C1_Witness ==
    /\ ~lastSet[1][<<0, 1>>].none
    /\ lastSet[1][<<0, 1>>].v.by = "A"
    /\ ~lastSet[1][<<SizeX - 1, 0>>].none
    /\ lastSet[1][<<SizeX - 1, 0>>].v.by = "B"
    /\ lastSet[1][<<SizeX - 1, 0>>].v.v # lastSet[1][<<0, 1>>].v.v
    /\ g["A"].cmd = CmdGetPixel(0, 0, 1)
    /\ g["A"].rd = Some(lastSet[1][<<0, 1>>].v.v)

(***************************************************************************)
(* C2: for every (x, y) with x >= SizeX or y >= SizeY, get(x, y) is None   *)
(* and set(x, y, v) changes no cell: a SetPixel out of bounds never enters *)
(* a store and leaves every canvas as it was (no wrap into the next row),  *)
(* and a GetPixel out of bounds reads None.                                *)
(***************************************************************************)
OutOfBounds(x, y) == x >= SizeX \/ y >= SizeY

C2_OutOfBoundsState ==
    /\ \A c \in 1..GRID_LENGTH : \A x \in 0..(SizeX + 1) : \A y \in 0..(SizeY + 1) :
          OutOfBounds(x, y) =>
              /\ FlutGet(grids[c], x, y) = None
              /\ FlutSet(grids[c], x, y, <<0, 0>>) = grids[c]
    /\ \A s \in Sessions :
          (g[s].cmd.op = "GetPixel" /\ OutOfBounds(g[s].cmd.x, g[s].cmd.y)) =>
              g[s].rd = None

C2_OutOfBoundsStep ==
    \A s \in Sessions :
        (/\ Dispatched(s)
         /\ g'[s].cmd.op = "SetPixel"
         /\ OutOfBounds(g'[s].cmd.x, g'[s].cmd.y)) =>
            (grids' = grids /\ client'[s].pc # "store")

C2_OutOfBounds == []C2_OutOfBoundsState /\ [][C2_OutOfBoundsStep]_vars

\* A completed a SetPixel at (SizeX, 0) and B failed a GetPixel there, and
\* the cell with that packed index, (0, 1), still holds the fill.
C2_Witness ==
    /\ g["A"].cmd.op = "SetPixel"
    /\ g["A"].cmd.x = SizeX
    /\ g["A"].cmd.y = 0
    /\ g["A"].nset = 1
    /\ g["B"].cmd = CmdGetPixel(0, SizeX, 0)
    /\ client["B"].pc = "err"
    /\ grids[1].cells[SizeX + 1] = Fill

(***************************************************************************)
(* C3: every read of a cell returns one whole value that some set call was *)
(* given for that cell (or the initial fill), and a cell no store is in    *)
(* progress on holds such a value, also when sessions write and read the   *)
(* cell concurrently.                                                      *)
(***************************************************************************)
C3_WholeCells ==
    /\ \A s \in Sessions :
          (g[s].cmd.op = "GetPixel" /\ ~g[s].rd.none) =>
              g[s].rd.v \in {Fill} \cup
                  written[g[s].cmd.canvas + 1][g[s].cmd.y * SizeX + g[s].cmd.x + 1]
    /\ \A c \in 1..GRID_LENGTH : \A i \in 1..(SizeX * SizeY) :
          (\A s \in Sessions : ~(client[s].pc = "store" /\ client[s].st.idx + 1 = i)) =>
              grids[c].cells[i] \in {Fill} \cup written[c][i]

(***************************************************************************)
(* C4: an in-bounds SetPixel(canvas, x, y, color) that no other store      *)
(* overlaps leaves in cell y * SizeX + x exactly the canonical four bytes  *)
(* of the colour (Color::to_bytes), whatever the cell held before.         *)
(***************************************************************************)
C4_SetPixelStep ==
    \A s \in Sessions :
        (/\ client[s].pc = "store"
         /\ client'[s].pc # "store"
         /\ ~client[s].st.raced
         /\ InBounds(g[s].cmd)) =>
            ToBeBytes(grids'[g[s].cmd.canvas + 1].cells[g[s].cmd.y * SizeX + g[s].cmd.x + 1])
                = ColorToBytes(g[s].cmd.color)

C5_GetPixelStep ==
    \A s \in Sessions :
        (/\ Dispatched(s)
         /\ g'[s].cmd.op = "GetPixel"
         /\ InBounds(g'[s].cmd)) =>
            LET cmd == g'[s].cmd
                i == cmd.y * SizeX + cmd.x + 1
                last == lastSet[cmd.canvas + 1][<<cmd.x, cmd.y>>]
                b == ToBeBytes(IF last.none THEN Fill ELSE last.v.v)
                resp == ParserUnparse(client[s].parser,
                            RespGetPixel(cmd.x, cmd.y, <<b[1], b[2], b[3]>>))
            IN  (~last.none \/ written[cmd.canvas + 1][i] = {}) =>
                    Stream(client'[s]) = Stream(client[s]) \o resp

IsPrefix(a, b) == Len(a) <= Len(b) /\ Take(b, Len(a)) = a

C6_OrderStep ==
    \A s \in Sessions :
        /\ IsPrefix(client[s].wire, client'[s].wire)
        /\ IsPrefix(client'[s].wire, Stream(client'[s]))
        /\ Dispatched(s) =>
              /\ client[s].pc = "parse"
              /\ Stream(client'[s]) = Stream(client[s]) \o Owed(s)
              /\ (/\ g'[s].cmd.op = "GetPixel"
                  /\ g[s].cmd.op = "SetPixel"
                  /\ InBounds(g[s].cmd)
                  /\ g'[s].cmd.canvas = g[s].cmd.canvas
                  /\ g'[s].cmd.x = g[s].cmd.x
                  /\ g'[s].cmd.y = g[s].cmd.y
                  /\ ~lastSet[g[s].cmd.canvas + 1][<<g[s].cmd.x, g[s].cmd.y>>].none
                  /\ lastSet[g[s].cmd.canvas + 1][<<g[s].cmd.x, g[s].cmd.y>>].v.by = s) =>
                    g'[s].rd = Some(FromBeBytes(ColorToBytes(g[s].cmd.color)))
        /\ ~Dispatched(s) => Stream(client'[s]) = Stream(client[s])

C6_InOrder == [][C6_OrderStep]_vars

\* A sent SetPixel, GetPixel and HELP for (0, 1): the wire holds the PX line
\* with the colour it had set and then the help text.
C6_Witness ==
    /\ g["A"].n = 3
    /\ g["A"].prev = CmdGetPixel(0, 0, 1)
    /\ g["A"].cmd = CmdHelp
    /\ g["A"].nset = 1
    /\ client["A"].wire =
          <<80, 88, 32, 48, 32, 49, 32, 56, 48, 56, 48, 56, 48, 10>> \o HELP_TEXT

(***************************************************************************)
(* C11: CLIENTS is at every moment the number of sessions that have been   *)
(* established and have not ended (by clean close, by error or otherwise), *)
(* and it is never negative.                                               *)
(***************************************************************************)
C11_ClientsCountsLive ==
    /\ CLIENTS = Cardinality({s \in Sessions : Live(s)})
    /\ CLIENTS >= 0

(***************************************************************************)
(* C12 as claimed: a session that met an InvalidInput error (malformed     *)
(* line or frame, GetPixel out of range, unknown command byte) stays alive *)
(* and goes on with the commands that follow.                              *)
(***************************************************************************)
C12_InvalidInputKeepsSession ==
    \A s \in Sessions :
        (client[s].err = "InvalidInput" /\ ~g[s].eof) => Live(s)

(***************************************************************************)
(* C12 as amended: an InvalidInput error ends the session: process_socket  *)
(* returns the error at once, nothing is written for the failing command,  *)
(* and the bytes that follow it on the connection are never parsed nor     *)
(* executed.                                                               *)
(***************************************************************************)
C12_InvalidInputStep ==
    \A s \in Sessions :
        /\ (Dispatched(s) /\ client'[s].err = "InvalidInput") =>
              /\ client'[s].pc = "err"
              /\ Stream(client'[s]) = Stream(client[s])
              /\ grids' = grids
        /\ client[s].pc = "err" =>
              (client'[s] = client[s] /\ g'[s] = g[s])

C12_InvalidInputEndsSession ==
    [](\A s \in Sessions : client[s].err = "InvalidInput" => client[s].pc = "err")
        /\ [][C12_InvalidInputStep]_vars

\* A got InvalidInput for a GetPixel out of bounds with a SetPixel line
\* behind it in its buffer; B for a malformed line in the text protocol, or
\* for an unknown command byte in the binary protocol; the SetPixel was not
\* run.
C12_Witness ==
    /\ client["A"].pc = "err"
    /\ client["A"].err = "InvalidInput"
    /\ g["A"].cmd = CmdGetPixel(0, SizeX, 0)
    /\ client["A"].reader = TxtSet(0, 1, hx80)
    /\ g["A"].nset = 0
    /\ grids[1].cells[SizeX + 1] = Fill
    /\ client["B"].pc = "err"
    /\ client["B"].err = "InvalidInput"
    /\ g["B"].cmd = CmdNone
    /\ client["B"].parser.type = "binary"

(***************************************************************************)
(* C13: a GetPixel with x >= SizeX or y >= SizeY writes no byte, neither   *)
(* to the wire nor to the write buffer, leaves every canvas unchanged and  *)
(* ends the session with InvalidInput, which closes the connection.        *)
(***************************************************************************)
C13_GetOutOfBoundsStep ==
    \A s \in Sessions :
        (/\ Dispatched(s)
         /\ g'[s].cmd.op = "GetPixel"
         /\ OutOfBounds(g'[s].cmd.x, g'[s].cmd.y)) =>
            /\ client'[s].wire = client[s].wire
            /\ client'[s].wbuf = client[s].wbuf
            /\ grids' = grids
            /\ client'[s].pc = "err"
            /\ client'[s].err = "InvalidInput"

C13_GetOutOfBoundsCloses == [][C13_GetOutOfBoundsStep]_vars

\* A sent HELP and then a GetPixel at (SizeX, 0): the session has ended and
\* all it wrote is the help text.
C13_Witness ==
    /\ g["A"].prev = CmdHelp
    /\ g["A"].cmd = CmdGetPixel(0, SizeX, 0)
    /\ client["A"].pc = "err"
    /\ client["A"].wire = HELP_TEXT
    /\ client["A"].wbuf = <<>>
    /\ grids[1] = FlutInit(SizeX, SizeY, Fill)

C15_SilentStep ==
    \A s \in Sessions :
        /\ (Dispatched(s)
             /\ g'[s].cmd.op \in {"SetPixel", "ChangeCanvas", "ChangeProtocol"}) =>
                (client'[s].wire = client[s].wire /\ client'[s].wbuf = client[s].wbuf)
        /\ client[s].pc = "store" =>
                (client'[s].wire = client[s].wire /\ client'[s].wbuf = client[s].wbuf)
        /\ (client'[s].wire # client[s].wire \/ client'[s].wbuf # client[s].wbuf) =>
                (Dispatched(s)
                 /\ g'[s].cmd.op \in {"Help", "Protocols", "Size", "GetPixel"})

C15_SilentCommands == [][C15_SilentStep]_vars

\* A read (0, 1), whose response waits in the write buffer, then completed a
\* SetPixel to it and a CANVAS 0: the buffer is as it was and the wire is
\* empty.
C15_Witness ==
    /\ g["A"].prev.op = "SetPixel"
    /\ g["A"].cmd = CmdChangeCanvas(0)
    /\ g["A"].inb = 1
    /\ client["A"].pc = "parse"
    /\ client["A"].wbuf = <<80, 88, 32, 48, 32, 49, 32, 48, 48, 70, 70, 48, 48, 10>>
    /\ client["A"].wire = <<>>

(***************************************************************************)
(* C16: a session starts with the default text parser; a `PROTOCOL binary` *)
(* line replaces the parser by the default binary parser and leaves in the *)
(* reader exactly the bytes received behind the line, and every command    *)
(* run is the current parser's parse of the head of the bytes received and *)
(* not yet consumed, which consumes just the bytes of that command: no     *)
(* byte is dropped or decoded twice across the switch.                     *)
(***************************************************************************)
C16_StartsInText ==
    \A s \in Sessions :
        (client[s].pc = "parse" /\ g[s].n = 0) => client[s].parser = TextParserDefault

C16_SwitchStep ==
    \A s \in Sessions :
        /\ (Dispatched(s) /\ g'[s].cmd = CmdChangeProtocol("binary")) =>
              /\ client'[s].parser = BinaryParserDefault
              /\ client'[s].pc = "parse"
              /\ client[s].reader \o g'[s].recv = lPROTOCOLBinary \o client'[s].reader
        /\ Dispatched(s) =>
              LET input == client[s].reader \o g'[s].recv
                  r == ParserParse(client[s].parser, input, client[s].closed)
              IN  /\ r.k # "wait"
                  /\ g'[s].cmd = (IF r.k = "ok" THEN r.cmd ELSE CmdNone)
                  /\ client'[s].reader = Drop(input, r.used)

C16_ProtocolSwitch == []C16_StartsInText /\ [][C16_SwitchStep]_vars

\* A received `PROTOCOL binary\n` and the byte 0x68 in one chunk and has
\* answered with the help text of the binary protocol.
C16_Witness ==
    /\ budget = MaxChunks - 1
    /\ g["A"].n = 2
    /\ g["A"].prev = CmdChangeProtocol("binary")
    /\ g["A"].cmd = CmdHelp
    /\ client["A"].parser = BinaryParserDefault
    /\ client["A"].reader = <<>>
    /\ client["A"].wire = BinaryHelpText

(***************************************************************************)
(* C17: in the text protocol a session starts on canvas 0; a `CANVAS n`    *)
(* with n < GRID_LENGTH makes n the selected canvas and the session goes   *)
(* on; every SIZE and PX command addresses the canvas selected when it is  *)
(* parsed; the selection changes only by a CANVAS or PROTOCOL command; a   *)
(* `CANVAS n` with n >= GRID_LENGTH fails with InvalidInput and leaves the *)
(* selection as it was.                                                    *)
(***************************************************************************)
C17_StartsOnCanvas0 ==
    \A s \in Sessions :
        (client[s].pc = "parse" /\ g[s].n = 0) =>
            (client[s].parser.type = "text" /\ client[s].parser.canvas = 0)

C17_CanvasStep ==
    \A s \in Sessions :
        /\ (Dispatched(s) /\ client[s].parser.type = "text") =>
              LET cmd == g'[s].cmd
              IN  /\ cmd.op \in {"Size", "GetPixel", "SetPixel"} =>
                        cmd.canvas = client[s].parser.canvas
                  /\ (cmd.op = "ChangeCanvas" /\ cmd.canvas < GRID_LENGTH) =>
                        /\ client'[s].parser = [type |-> "text", canvas |-> cmd.canvas]
                        /\ client'[s].pc = "parse"
                  /\ (cmd.op = "ChangeCanvas" /\ cmd.canvas >= GRID_LENGTH) =>
                        /\ client'[s].parser = client[s].parser
                        /\ client'[s].pc = "err"
                        /\ client'[s].err = "InvalidInput"
        /\ (client[s].pc # "idle" /\ client'[s].parser # client[s].parser) =>
              (Dispatched(s) /\ g'[s].cmd.op \in {"ChangeCanvas", "ChangeProtocol"})

C17_CanvasSelection == []C17_StartsOnCanvas0 /\ [][C17_CanvasStep]_vars

\* A selected canvas 0 and then asked for its size, and B failed on
\* `CANVAS 1` with its selection still 0.
C17_Witness ==
    /\ g["A"].prev = CmdChangeCanvas(0)
    /\ g["A"].cmd = CmdSize(0)
    /\ client["A"].wire = sSIZE \o <<32>> \o Dec(SizeX) \o <<32>> \o Dec(SizeY) \o <<10>>
    /\ g["B"].cmd = CmdChangeCanvas(GRID_LENGTH)
    /\ client["B"].pc = "err"
    /\ client["B"].err = "InvalidInput"
    /\ client["B"].parser = [type |-> "text", canvas |-> 0]

(***************************************************************************)
(* C18: the parser (protocol and selected canvas), the local pixel count   *)
(* and the position in the batch of a connection change only in steps of   *)
(* that connection: whatever another connection receives and runs leaves   *)
(* them, and so the way this connection's bytes are decoded, as they were. *)
(***************************************************************************)
Acts(s) ==
    \/ Dispatched(s)
    \/ client'[s].pc # client[s].pc
    \/ client'[s].closed # client[s].closed
    \/ client'[s].reader # client[s].reader

C18_OwnStateStep ==
    \A t \in Sessions :
        ~Acts(t) =>
            /\ client'[t].parser = client[t].parser
            /\ client'[t].counter = client[t].counter
            /\ client'[t].iter = client[t].iter
            /\ client'[t].wire = client[t].wire
            /\ client'[t].wbuf = client[t].wbuf

InbOf(s) == g[s].inb
C7_CounterCountsInBoundsWrites ==
    (\A s \in Sessions : Ended(s)) => COUNTER = SumOver(InbOf, Sessions)

(***************************************************************************)
(* C8: for every live connection the number of SetPixel commands it has    *)
(* processed and not yet added to COUNTER is at most BATCH_N - 1.          *)
(***************************************************************************)
C8_PendingBelowBatch ==
    \A s \in Sessions : Live(s) => g[s].nset - g[s].added <= BATCH_N - 1

(***************************************************************************)
(* C9: a connection whose peer closed it cleanly (the parse found the      *)
(* stream ended with no bytes left) ends with Ok and has added every       *)
(* SetPixel it processed to COUNTER, in the text and the binary protocol.  *)
(***************************************************************************)
C9_CleanCloseEndsOk ==
    \A s \in Sessions :
        g[s].eof => (client[s].pc = "ok" /\ g[s].added = g[s].nset)

(***************************************************************************)
(* C10: a connection that ended with an error has added every SetPixel it  *)
(* processed to COUNTER.                                                   *)
(***************************************************************************)
C10_ErrorFlushesCount ==
    \A s \in Sessions : client[s].pc = "err" => g[s].added = g[s].nset



(***************************************************************************)
(* C19: TextParser::parse maps every line of a recognised form to the      *)
(* command of that form, on the parser's own canvas: HELP, PROTOCOLS,      *)
(* SIZE, PX x y, PX x y with a colour of one, three or four bytes, CANVAS  *)
(* n, PROTOCOL text and PROTOCOL binary; x and y are read as decimal       *)
(* 16-bit numbers, n as a decimal 8-bit number, and the hex digits of a    *)
(* colour give the same bytes in upper, lower and mixed case.              *)
(***************************************************************************)
C19_RecognisedLinesParse ==
    probe.done =>
        \A p \in RecognisedLines(probe.canvas) :
            probe.line = p[1] => probe.out = Ok(p[2], Len(p[1]))

\* A PX line with a four-byte colour in mixed case, parsed on canvas 3.
C19_Witness ==
    /\ probe.done
    /\ probe.canvas = 3
    /\ probe.line = TxtSet(7, 65535, <<65, 98, 67, 100, 69, 102, 49, 50>>)
    /\ probe.out.k = "ok"
    /\ probe.out.cmd = CmdSetPixel(3, 7, 65535, RGBA32(171, 205, 239, 18))

(***************************************************************************)
(* C20, as stated: every line that is not exactly of a recognised form     *)
(* makes TextParser::parse return InvalidInput, lines with characters      *)
(* after HELP, SIZE or PROTOCOLS and lines with fields after the colour    *)
(* included.                                                               *)
(***************************************************************************)
C20_NotExactIsInvalid ==
    (probe.done /\ probe.line \notin {p[1] : p \in RecognisedLines(probe.canvas)})
        => probe.out = Err("InvalidInput", Len(probe.line))

(***************************************************************************)
(* C20, as the code has it: a line with an unknown command word, missing   *)
(* fields, a coordinate that is not a decimal number in 0..65535, a canvas *)
(* number outside 0..255, a colour that is not 2, 6 or 8 hex digits, or an *)
(* unknown protocol name makes TextParser::parse return InvalidInput and   *)
(* no command; characters after HELP, SIZE or PROTOCOLS and fields after   *)
(* the colour are ignored, and the line yields the command it starts with. *)
(***************************************************************************)
C20_MalformedIsInvalid ==
    probe.done =>
        /\ probe.line \in BadLines => probe.out = Err("InvalidInput", Len(probe.line))
        /\ \A p \in ExtraLines(probe.canvas) :
               probe.line = p[1] => probe.out = Ok(p[2], Len(p[1]))

\* `PX 65536 0` was parsed and refused.
C20_Witness ==
    /\ probe.done
    /\ probe.line = sPX \o Dec(65536) \o <<32, 48, 10>>
    /\ probe.line \in BadLines
    /\ probe.out.k = "err"
    /\ probe.out.err = "InvalidInput"


(***************************************************************************)
(* C21: BinaryParser::parse applied to the frame of a command (opcode,     *)
(* canvas, x and y as little-endian u16, colour bytes in order) returns    *)
(* that command and consumes the bytes of the frame and no other, so two   *)
(* frames back to back parse to the two commands in order.                 *)
(***************************************************************************)
C21_BinaryRoundTrip ==
    (probe.sent # <<>>) =>
        /\ Len(probe.out) <= Len(probe.sent)
        /\ \A i \in 1..Len(probe.out) :
               probe.out[i] = Ok(probe.sent[i], Len(BinaryFrame(probe.sent[i])))
        /\ probe.input = BinaryFrames(SubSeq(probe.sent, Len(probe.out) + 1, Len(probe.sent)))

\* An RGB SetPixel and an RGBA SetPixel at x = 258 (bytes 02 01), both parsed.
C21_Witness ==
    /\ probe.sent = <<CmdSetPixel(255, 258, 1, RGB24(130, 0, 255)),
                      CmdSetPixel(0, 65535, 513, RGBA32(130, 0, 255, 160))>>
    /\ Len(probe.out) = 2
    /\ probe.out[2].k = "ok"
    /\ probe.out[2].cmd = probe.sent[2]
    /\ probe.input = <<>>

(***************************************************************************)
(* C22: a first byte that is none of the six opcodes makes                 *)
(* BinaryParser::parse return InvalidInput; a stream that ends after the   *)
(* opcode and before the last byte of its frame makes it return            *)
(* UnexpectedEof; neither returns a command, and the grids are as before.  *)
(***************************************************************************)
C22_BinaryErrors ==
    (probe.sent = <<>> /\ probe.out # <<>>) =>
        /\ Len(probe.out) = 1
        /\ probe.out[1].k # "ok"
        /\ ~IsBinaryOpcode(probe.stream[1]) => probe.out[1] = Err("InvalidInput", 1)
        /\ (IsBinaryOpcode(probe.stream[1]) /\ probe.closed) =>
               probe.out[1].k = "err" /\ probe.out[1].err = "UnexpectedEof"
        /\ \A c \in 1..GRID_LENGTH : \A i \in 1..(SizeX * SizeY) : grids[c].cells[i] = Fill

\* A SetPixel frame cut before its last byte, on a stream that has ended.
C22_Witness ==
    /\ probe.sent = <<>>
    /\ probe.closed
    /\ Len(probe.out) = 1
    /\ probe.out[1].k = "err"
    /\ probe.out[1].err = "UnexpectedEof"
    /\ \E cmd \in BinaryCommands :
           /\ cmd.op = "SetPixel"
           /\ probe.out[1].used = Len(BinaryFrame(cmd)) - 1


(***************************************************************************)
(* C23, as stated: the line TextParser::unparse writes for Size(w, h) or   *)
(* GetPixel(x, y, [r, g, b]), fed back into TextParser::parse, gives back  *)
(* the same values.                                                        *)
(***************************************************************************)
ResponseValues(r) ==
    IF r.op = "Size" THEN <<"SIZE", r.x, r.y>> ELSE <<"PX", r.x, r.y, r.c>>
CommandValues(cmd) ==
    CASE cmd.op = "Size" -> <<"SIZE">>
      [] cmd.op = "SetPixel" -> <<"PX", cmd.x, cmd.y, cmd.color.b>>
      [] cmd.op = "GetPixel" -> <<"PX", cmd.x, cmd.y>>
      [] OTHER -> <<cmd.op>>

C23_RoundTripRecoversValues ==
    probe.pc = "done" =>
        /\ probe.out.k = "ok"
        /\ CommandValues(probe.out.cmd) = ResponseValues(probe.resp)

(***************************************************************************)
(* C23, as the code has it: the line written for GetPixel(x, y, [r, g, b]) *)
(* is `PX x y RRGGBB` with two upper-case hex digits per byte, and parses  *)
(* to SetPixel(c, x, y, RGB24(r, g, b)) on the parser's canvas c, which    *)
(* gives back x, y and the three bytes; the line written for Size(w, h) is *)
(* `SIZE w h` and parses to Size(c), which holds neither w nor h.          *)
(***************************************************************************)
C23_TextEcho ==
    probe.pc = "done" =>
        LET r == probe.resp
        IN  IF r.op = "GetPixel"
            THEN /\ probe.line = TxtSet(r.x, r.y, HexIn(r.c, "upper"))
                 /\ probe.out = Ok(CmdSetPixel(probe.canvas, r.x, r.y,
                                               RGB24(r.c[1], r.c[2], r.c[3])),
                                   Len(probe.line))
            ELSE /\ probe.line = sSIZE \o <<32>> \o Dec(r.x) \o <<32>> \o Dec(r.y) \o <<10>>
                 /\ probe.out = Ok(CmdSize(probe.canvas), Len(probe.line))

\* The line of GetPixel(7, 65535, [255, 0, 10]) was written and parsed back
\* on canvas 3.
C23_Witness ==
    /\ probe.pc = "done"
    /\ probe.canvas = 3
    /\ probe.resp = RespGetPixel(7, 65535, <<255, 0, 10>>)
    /\ probe.out.k = "ok"
    /\ probe.out.cmd.color = RGB24(255, 0, 10)


(***************************************************************************)
(* C24: PaletteParser::parse reads the coordinates of a frame as           *)
(* big-endian u16, and turns the frame 0x21, canvas, x, y, idx into        *)
(* SetPixel(canvas, x, y, colour) with the colour the parser's table holds *)
(* at idx when the parse runs, for every idx from 0 to 255.                *)
(***************************************************************************)
C24_ParseStep ==
    (probe'.out # probe.out) =>
        LET f == probe.stream
            x == 256 * f[3] + f[4]
            y == 256 * f[5] + f[6]
        IN  /\ (f[1] = SET_PX_PALETTE_BIN /\ Len(f) = 7) =>
                   /\ f[7] \in DOMAIN probe.colors
                   /\ probe'.out = Ok(CmdSetPixel(f[2], x, y, probe.colors[f[7]]), 7)
            /\ (f[1] = GET_PX_BIN /\ Len(f) = 6) =>
                   probe'.out = Ok(CmdGetPixel(f[2], x, y), 6)

C24_PaletteSetPixel == [][C24_ParseStep]_vars

\* Entry 255 was replaced, and then a frame with idx = 255 and x = 258
\* parsed to a SetPixel of the new colour.
C24_Witness ==
    /\ probe.stream = PaletteSetFrame(1, 258, 1, 255)
    /\ probe.sets = 1
    /\ probe.colors[255] = RGB24(250, 189, 47)
    /\ probe.out = Ok(CmdSetPixel(1, 258, 1, RGB24(250, 189, 47)), 7)


(***************************************************************************)
(* C25: when update_jpg_buffer has returned and no cell was stored into    *)
(* since that call began, last_hash is the hash of the grid and jpgbuf is  *)
(* the JPEG of the grid (no encode having failed).                         *)
(***************************************************************************)
C25_QuietTickIsCurrent ==
    (web.pc = "idle" /\ web.ticked /\ web.quiet /\ web.fails = 0) =>
        /\ web.last_hash = HashCells(grids[1].cells)
        /\ web.jpgbuf = JpegOf(ImageOf(grids[1].cells))

(***************************************************************************)
(* C26: once the stores into a canvas have stopped, the cache comes to     *)
(* hold the JPEG of the final grid and keeps holding it, whatever stores   *)
(* and ticks came before and whether or not an earlier encode failed.      *)
(***************************************************************************)
C26_EventuallyConsistent == <>[](web.jpgbuf = JpegOf(ImageOf(grids[1].cells)))


(***************************************************************************)
(* C27: every part emitted on /imgstream starts with CRLF, `--` and the    *)
(* boundary, the same for all parts and the one announced in the           *)
(* Content-Type of the response, and its body is a whole JPEG: it starts   *)
(* with FF D8 FF and is never empty or cut short.                          *)
(***************************************************************************)
PartHead(boundary) == sCRLF \o <<45, 45>> \o boundary \o sCRLF \o sPartHeader \o sCRLF \o sCRLF

C27_PartsAreWholeJpegs ==
    \A k \in 1..Len(web.img.parts) :
        LET part == web.img.parts[k]
            body == Drop(part, Len(PartHead(web.img.boundary)))
        IN  /\ web.img.announced = sMixedReplace \o web.img.boundary
            /\ StartsWith(part, PartHead(web.img.boundary))
            /\ StartsWith(body, <<255, 216, 255>>)
            /\ \E cells \in [1..(SizeX * SizeY) -> {Fill, CacheInk}] : body = JpegOf(ImageOf(cells))

(***************************************************************************)
(* C28: an HTTP stream task ends once its client has gone or a send to it  *)
(* has failed: after a failed send the /stats task takes no further tick   *)
(* and makes no further send, and /imgstream emits no part once its client *)
(* is gone.                                                                *)
(***************************************************************************)
C28_StreamStep ==
    /\ web.stats.failed > 0 => web'.stats.ticks = web.stats.ticks
    /\ web.img.pc = "closed" => web'.img.parts = web.img.parts

C28_StreamsStop == [][C28_StreamStep]_vars


(***************************************************************************)
(* C29: the acceptor goes back to accept after spawning a session without  *)
(* waiting for it, and after an accept error of one socket it accepts      *)
(* again: it stops only on an error of the listener.                       *)
(***************************************************************************)
C29_AcceptStep ==
    /\ (web.pc = "accept" /\ Len(web'.tasks) > Len(web.tasks)) =>
           web'.pc = "accept" /\ web'.tasks[Len(web'.tasks)] = "running"
    /\ (web.pc = "accept" /\ web'.pc = "exited") => web'.err = "fatal"

C29_AcceptorSurvives == [][C29_AcceptStep]_vars


(***************************************************************************)
(* C30: Flut::init(W, H, fill) yields W * H cells all equal to fill, and   *)
(* no step of the server, whatever set and get calls it makes, changes the *)
(* dimensions or the number of cells of a grid, or any cell other than the *)
(* cell y * W + x of an in-bounds set(x, y, v) that completes in the step. *)
(***************************************************************************)
C30_InitFilled ==
    \A c \in 1..GRID_LENGTH :
        /\ DOMAIN grids[c].cells = 1..(SizeX * SizeY)
        /\ \A i \in 1..(SizeX * SizeY) : grids[c].cells[i] = Fill

C30_SetStep ==
    \A c \in 1..GRID_LENGTH :
        /\ grids'[c].size_x = grids[c].size_x
        /\ grids'[c].size_y = grids[c].size_y
        /\ DOMAIN grids'[c].cells = 1..(grids[c].size_x * grids[c].size_y)
        /\ \A i \in 1..(SizeX * SizeY) :
              grids'[c].cells[i] # grids[c].cells[i] =>
                  \E s \in Sessions :
                      /\ client[s].pc = "store"
                      /\ client'[s].pc # "store"
                      /\ client[s].st.canvas + 1 = c
                      /\ client[s].st.x < grids[c].size_x
                      /\ client[s].st.y < grids[c].size_y
                      /\ (client[s].st.y * grids[c].size_x) + client[s].st.x + 1 = i

C30_SetChangesOneCell == C30_InitFilled /\ [][C30_SetStep]_vars

\* A session has completed an in-bounds store, one cell of the first canvas
\* no longer holds the fill and the cells around it still do.
C30_Witness ==
    /\ \E s \in Sessions : g[s].inb > 0 /\ client[s].pc # "store"
    /\ \E i \in 1..(SizeX * SizeY) :
          /\ grids[1].cells[i] # Fill
          /\ \A j \in (1..(SizeX * SizeY)) \ {i} : grids[1].cells[j] = Fill
    /\ grids[1].size_x = SizeX /\ grids[1].size_y = SizeY


(***************************************************************************)
(* C31: when the hash of the cells equals the cached hash, a tick of       *)
(* update_jpg_buffer leaves the cached bytes and the cached hash as they   *)
(* were and never holds the write lock; when it differs, the cached hash   *)
(* becomes the new hash and the cached bytes a fresh encoding of the       *)
(* cells; a tick that follows a tick with no write since that tick began   *)
(* finds the hash unchanged.                                               *)
(***************************************************************************)
C31_SkipStep ==
    (web.pc = "hash" /\ web'.pc = "idle") =>
        /\ web'.jpgbuf = web.jpgbuf
        /\ web'.last_hash = web.last_hash
        /\ \E read \in RacyReads(grids[1].cells, web.window) :
               HashCells(read) = web.last_hash

C31_DirtyStep ==
    /\ (web.pc = "hash" /\ web'.pc = "lock") =>
           /\ web'.last_hash # web.last_hash
           /\ \E read \in RacyReads(grids[1].cells, web.window) :
                  web'.last_hash = HashCells(read)
    /\ (web.pc = "encode" /\ web'.pc = "idle") =>
           /\ web'.last_hash = web.last_hash
           /\ \E read \in RacyReads(grids[1].cells, web.window) :
                  web'.jpgbuf = JpegOf(ImageOf(read))

C31_SecondTickSkips ==
    (web.pc = "idle" /\ web.ticked /\ web.quiet) =>
        HashCells(grids[1].cells) = web.last_hash

C31_DirtySkip ==
    [](C31_SecondTickSkips) /\ [][C31_SkipStep /\ C31_DirtyStep]_vars


(***************************************************************************)
(* C32: the cached hash and the cached bytes change only while the write   *)
(* lock of the cache is held, and whenever the lock is free, so that a     *)
(* reader can take the shared lock, the cached hash is the hash of the     *)
(* cells the cached JPEG was produced from (or both are still as           *)
(* Flut::init left them).                                                  *)
(***************************************************************************)
C32_ChangeUnderLock ==
    /\ web'.last_hash # web.last_hash => web.pc = "encode"
    /\ web'.jpgbuf # web.jpgbuf => web'.pc = "encode" \/ web.pc = "encode"

C32_HashOfCachedBytes ==
    web.pc # "encode" =>
        \/ web.last_hash = HashZero /\ web.jpgbuf = <<>>
        \/ \E cells \in RacyReads(grids[1].cells, [i \in CacheCells |-> {Fill, CacheInk}]) :
               /\ web.last_hash = HashCells(cells)
               /\ web.jpgbuf = JpegOf(ImageOf(cells))

C32_UpdateUnderLock ==
    [](C32_HashOfCachedBytes) /\ [][C32_ChangeUnderLock]_vars


(***************************************************************************)
(* C33: TextParser::parse never changes the parser's selected canvas: a    *)
(* `CANVAS n` line parses to ChangeCanvas(n) and a `SIZE` line parsed by   *)
(* the same parser afterwards still parses to Size of the canvas selected  *)
(* before; the selection changes only in a call of change_canvas that      *)
(* succeeds, which is one with n < GRID_LENGTH.                            *)
(***************************************************************************)
C33_ParseKeepsCanvas ==
    probe.fn = "canvas" =>
        \A k \in 1..Len(probe.log) :
            LET e == probe.log[k]
                before == IF k = 1 THEN probe.start ELSE probe.log[k - 1].canvas
            IN  /\ e.call = "parse" =>
                       /\ e.canvas = before
                       /\ \A n \in CanvasNumbers :
                              e.arg = sCANVAS \o Dec(n) \o <<10>> =>
                                  e.out = Ok(CmdChangeCanvas(n), Len(e.arg))
                       /\ e.arg = lSIZE => e.out = Ok(CmdSize(before), Len(lSIZE))
                /\ e.call = "change_canvas" =>
                       /\ e.canvas = IF e.arg < GRID_LENGTH THEN e.arg ELSE before
                       /\ (e.out.k = "ok") = (e.arg < GRID_LENGTH)
                /\ (k = Len(probe.log)) => probe.parser.canvas = e.canvas

\* A parser on canvas 3 has parsed `CANVAS 0` and then `SIZE`, and
\* change_canvas(0) has then succeeded.
C33_Witness ==
    /\ probe.fn = "canvas"
    /\ probe.start = 3
    /\ Len(probe.log) = 3
    /\ probe.log[1].arg = sCANVAS \o Dec(0) \o <<10>>
    /\ probe.log[2].arg = lSIZE
    /\ probe.log[2].out.k = "ok"
    /\ probe.log[3].call = "change_canvas" /\ probe.log[3].arg = 0
    /\ probe.parser.canvas = 0


(***************************************************************************)
(* C34: once ChangeColor(i, c) has been handled on a palette connection,   *)
(* a palette SetPixel frame with index i that follows it directly writes   *)
(* the canonical bytes of c, and handling ChangeColor(i, c) leaves every   *)
(* entry of the connection's palette other than i as it was.               *)
(***************************************************************************)
C34_ChangeColorStep ==
    (probe.fn = "palette_client" /\ Len(probe'.hist) > Len(probe.hist)) =>
        LET e == probe'.hist[Len(probe'.hist)]
        IN  /\ e.frame = "ChangeColor" =>
                   /\ probe'.parser[e.index] = e.color
                   /\ \A j \in (0..255) \ {e.index} : probe'.parser[j] = probe.parser[j]
            /\ (/\ e.frame = "SetPixel"
                /\ probe.hist # <<>>
                /\ probe.hist[Len(probe.hist)].frame = "ChangeColor"
                /\ probe.hist[Len(probe.hist)].index = e.index) =>
                   ToBeBytes(grids'[1].cells[SizeX + 2])
                       = ColorToBytes(probe.hist[Len(probe.hist)].color)

C34_ChangeColorTakesEffect == [][C34_ChangeColorStep]_vars


(***************************************************************************)
(* C35: when a session whose codec is the StateParser handles a set-canvas *)
(* frame (0x74, n), the session goes on and the parser's selected canvas   *)
(* is n, so that the Size, GetPixel and SetPixel frames handled after it   *)
(* name canvas n.                                                          *)
(***************************************************************************)
C35_SetCanvasStep ==
    (/\ probe.fn = "state"
     /\ Len(probe'.hist) > Len(probe.hist)
     /\ probe'.hist[Len(probe'.hist)].op = "ChangeCanvas") =>
        /\ probe'.pc = "run"
        /\ probe'.parser.canvas = probe'.hist[Len(probe'.hist)].canvas

C35_FramesFollowCanvas ==
    probe.fn = "state" =>
        \A k \in 1..Len(probe.hist) :
            probe.hist[k].op \in {"Size", "GetPixel", "SetPixel"} =>
                \A i \in 1..(k - 1) :
                    (/\ probe.hist[i].op = "ChangeCanvas"
                     /\ \A m \in (i + 1)..(k - 1) : probe.hist[m].op # "ChangeCanvas") =>
                        probe.hist[k].canvas = probe.hist[i].canvas

C35_SetCanvasSelects == [](C35_FramesFollowCanvas) /\ [][C35_SetCanvasStep]_vars


(***************************************************************************)
(* C36: a LOCK frame with count n, a set-pixel opcode, a lock mask and one *)
(* static byte per set bit of the mask parses to exactly n SetPixel        *)
(* commands; in each, the positions whose mask bit (most significant bit   *)
(* first) is set take the static bytes in order and the other positions    *)
(* the next bytes of the stream in order, and n times the number of        *)
(* positions that are not static bytes are consumed after the header.      *)
(***************************************************************************)
RECURSIVE C36_Expand(_, _, _, _, _)
C36_Expand(i, len, bits, statics, stream) ==
    IF i > len THEN <<>>
    ELSE IF bits[i] = 1
         THEN <<Head(statics)>> \o C36_Expand(i + 1, len, bits, Tail(statics), stream)
         ELSE <<Head(stream)>> \o C36_Expand(i + 1, len, bits, statics, Tail(stream))

C36_Positions(command) ==
    IF command = SET_PX_RGB_BIN THEN 7 ELSE IF command = SET_PX_RGBA_BIN THEN 8 ELSE 5

C36_Free(command, bits) ==
    Cardinality({i \in 1..C36_Positions(command) : bits[i] = 0})

C36_Command(command, b) ==
    CmdSetPixel(0, (256 * b[1]) + b[2], (256 * b[3]) + b[4],
        IF command = SET_PX_RGB_BIN THEN RGB24(b[5], b[6], b[7])
        ELSE IF command = SET_PX_RGBA_BIN THEN RGBA32(b[5], b[6], b[7], b[8])
        ELSE W8(b[5]))

C36_LockExpands ==
    (probe.fn = "lock" /\ probe.out # Wait) =>
        LET free == C36_Free(probe.command, probe.bits)
        IN  probe.out =
                Ok(CmdMultiple([m \in 1..probe.amount |->
                       C36_Command(probe.command,
                           C36_Expand(1, C36_Positions(probe.command), probe.bits,
                                      probe.statics, Drop(probe.tail, (m - 1) * free)))]),
                   5 + Len(probe.statics) + (probe.amount * free))


(***************************************************************************)
(* C37: COUNTER never decreases, and at every moment COUNTER, together     *)
(* with the local counts that running sessions have still to add, is at    *)
(* most the number of SetPixel commands all sessions have processed: no    *)
(* SetPixel is counted twice, at the end of a batch, across the re-entries *)
(* of the loop after ChangeCanvas and ChangeProtocol, or at session end.   *)
(***************************************************************************)
C37_Processed == g["A"].nset + g["B"].nset

C37_Pending(s) == IF client[s].pc \in {"parse", "store"} THEN client[s].counter ELSE 0

C37_AtMostProcessed ==
    /\ COUNTER <= C37_Processed
    /\ COUNTER + C37_Pending("A") + C37_Pending("B") <= C37_Processed

C37_CounterBounded == [](C37_AtMostProcessed) /\ [][COUNTER' >= COUNTER]_vars

\* A has passed the end of a batch after a re-entry of the loop, and B has
\* ended after its one SetPixel.
C37_Witness ==
    /\ COUNTER >= BATCH_N
    /\ g["A"].n > g["A"].nset
    /\ g["B"].nset = 1
    /\ client["B"].pc \in {"ok", "err"}


(***************************************************************************)
(* C38: a Size, GetPixel or SetPixel command that names a canvas index at  *)
(* or above the number of canvases never aborts the task of its session:   *)
(* the session answers with an error or ignores the command.               *)
(***************************************************************************)
C38_NoCanvasPanic ==
    \A s \in Sessions :
        (/\ g[s].cmd.op \in {"Size", "GetPixel", "SetPixel"}
         /\ g[s].cmd.canvas >= GRID_LENGTH) =>
            client[s].pc \in {"parse", "store", "ok", "err"}


(***************************************************************************)
(* C39: a connection whose codec is the binary codec keeps it for the rest *)
(* of the connection: no frame it decodes is dispatched as ChangeProtocol  *)
(* or ChangeCanvas, and the canvas of every Size, GetPixel and SetPixel it *)
(* dispatches, and of the store a SetPixel begins, is the canvas byte of   *)
(* the command's frame.                                                    *)
(***************************************************************************)
C39_BinaryStep ==
    \A s \in Sessions :
        client[s].parser.type = "binary" =>
            /\ client'[s].parser.type = "binary"
            /\ g'[s].n = g[s].n + 1 =>
                   LET input == client[s].reader \o g'[s].recv
                   IN  /\ g'[s].cmd.op \notin {"ChangeProtocol", "ChangeCanvas"}
                       /\ g'[s].cmd.op \in {"Size", "GetPixel", "SetPixel"} =>
                              g'[s].cmd.canvas = input[2]
                       /\ client'[s].pc = "store" => client'[s].st.canvas = input[2]

C39_BinaryStaysBinary == [][C39_BinaryStep]_vars

\* A connection that switched to the binary protocol has since dispatched
\* two frames, the second a SetPixel on canvas 1, and is still binary.
C39_Witness ==
    \E s \in Sessions :
        /\ client[s].parser.type = "binary"
        /\ g[s].n = 3
        /\ g[s].prev.op \in {"Help", "Size", "GetPixel", "SetPixel"}
        /\ g[s].cmd.op = "SetPixel"
        /\ g[s].cmd.canvas = 1

=============================================================================
